---- MODULE Spec2Model ----
(***************************************************************************)
(* Abuse-control pipeline of the LLM gateway: the signature engine and its *)
(* replay guard (utils/crypto.ts, middleware/auth.ts) and the fixed-window *)
(* rate limiter (middleware/rateLimit.ts), over the local in-memory stores *)
(* and the shared Redis store (utils/redis.ts).                            *)
(*                                                                         *)
(* Strings are sequences of one-character strings, so that the template    *)
(* literal `${ts}:${nonce}:${data}`, String.split, Array.join and parseInt *)
(* are computed, not assumed.  Time is the value of Date.now(), in coarse  *)
(* units; the configured durations are scaled to the same units.           *)
(***************************************************************************)
EXTENDS Integers, Sequences, FiniteSets, TLC

\* ------------------------------------------------------------------ bounds
\* The clock of the signature engine runs from 1 to MaxTime.
MaxTime == 3
\* The clock of the rate limiter runs from 1 to MaxRateTime.
MaxRateTime == 4
\* The largest maxRequests a deployment is configured with.
MaxLimit == 2
\* The most requests that arrive at one instant of the clock.
MaxArrivals == 2
\* The clock of the quota enforcer runs from 1 to MaxQuotaTime.
MaxQuotaTime == 6
\* The clock of the session store runs from 1 to MaxSessionTime.
MaxSessionTime == 4
\* The most messages a session holds.
MaxMessages == 3

\* ------------------------------------------------- configuration constants
\* config.auth.signatureMaxAge (300000 ms), in clock units.
signatureMaxAge == 1
\* usedNonces is cleared once its size exceeds this (10000 in the source).
NonceSweepThreshold == 1
\* config.rateLimit.windowMs (60000 by default), in milliseconds.
windowMs == 2
\* process.env.MAX_TOKENS_PER_REQUEST || '4000'
MAX_TOKENS_PER_REQUEST == 4000
\* process.env.DAILY_REQUEST_LIMIT (100 by default)
DAILY_LIMIT == 2
\* process.env.MONTHLY_REQUEST_LIMIT (2000 by default)
MONTHLY_LIMIT == 3
\* 24 * 60 * 60 * 1000, the length of the daily window, in clock units.
DayMs == 1
\* 30 * 24 * 60 * 60 * 1000, the length of the monthly window, in clock units.
MonthMs == 3
\* MessageStore.sessionTTL (24 hours), in clock units.
sessionTTL == 2

\* ---------------------------------------------------------------- strings
Digits == <<"0", "1", "2", "3", "4", "5", "6", "7", "8", "9">>

IsDigit(c) == \E i \in 1..10 : Digits[i] = c

DigitValue(c) == (CHOOSE i \in 1..10 : Digits[i] = c) - 1

\* `${n}` for a non-negative integer n.
RECURSIVE NumToString(_)
NumToString(n) ==
  IF n < 10 THEN <<Digits[n + 1]>>
  ELSE NumToString(n \div 10) \o <<Digits[(n % 10) + 1]>>

\* A JavaScript number that is either an integer or NaN.
JsNum(v) == [nan |-> FALSE, v |-> v]
JsNaN == [nan |-> TRUE, v |-> 0]

\* a - b, a < b, a > b with NaN propagating: every comparison with NaN is false.
JsSub(a, b) == IF a.nan \/ b.nan THEN JsNaN ELSE JsNum(a.v - b.v)
JsLt(a, b) == ~a.nan /\ ~b.nan /\ a.v < b.v
JsGt(a, b) == ~a.nan /\ ~b.nan /\ a.v > b.v

\* The value of the longest prefix of decimal digits of s, as parseInt(s, 10)
\* computes it: NaN when s does not start with a digit.
RECURSIVE DigitPrefixValue(_, _)
DigitPrefixValue(s, acc) ==
  IF s = <<>> \/ ~IsDigit(Head(s)) THEN acc
  ELSE DigitPrefixValue(Tail(s), acc * 10 + DigitValue(Head(s)))

parseInt(s) ==
  IF s = <<>> \/ ~IsDigit(Head(s)) THEN JsNaN ELSE JsNum(DigitPrefixValue(s, 0))

\* s.split(sep): the pieces of s between the occurrences of the character sep.
RECURSIVE SplitFrom(_, _, _)
SplitFrom(s, sep, cur) ==
  IF s = <<>> THEN <<cur>>
  ELSE IF Head(s) = sep THEN <<cur>> \o SplitFrom(Tail(s), sep, <<>>)
  ELSE SplitFrom(Tail(s), sep, Append(cur, Head(s)))

split(s, sep) == SplitFrom(s, sep, <<>>)

\* parts.slice(k)
slice(parts, k) == SubSeq(parts, k + 1, Len(parts))

\* parts.join(sep)
RECURSIVE join(_, _)
join(parts, sep) ==
  IF parts = <<>> THEN <<>>
  ELSE IF Len(parts) = 1 THEN parts[1]
  ELSE parts[1] \o <<sep>> \o join(Tail(parts), sep)

\* ----------------------------------------------------------------- crypto
\* The key derived from AES_SECRET_KEY, and a key the server does not hold.
ServerKey == "AES_SECRET_KEY"
OtherKey == "another key"

\* encrypt(text): AES-256-CBC under a key, returned as "iv:ciphertext".  The
\* cipher is symbolic: a token carries the key it was produced under and its
\* plaintext, and only decrypt under the same key gives the plaintext back.
encryptUnder(key, text) == [fmt |-> "iv:data", key |-> key, text |-> text]

encrypt(text) == encryptUnder(ServerKey, text)

\* A string that is not of the form "iv:data".
GarbledToken == [fmt |-> "garbled", key |-> ServerKey, text |-> <<>>]

\* decrypt(encryptedText): throws (ok = FALSE) when the text does not split
\* into exactly the two parts iv and data, or when final() fails on the
\* padding because the key is not the one the text was encrypted under.
decrypt(encryptedText) ==
  IF encryptedText.fmt # "iv:data" \/ encryptedText.key # ServerKey
  THEN [ok |-> FALSE, text |-> <<>>]
  ELSE [ok |-> TRUE, text |-> encryptedText.text]

\* generateSignatureWithNonce(data, timestamp, nonce) called when Date.now()
\* is t and crypto.randomBytes gives rnd.  An omitted timestamp is 0 here and
\* an omitted nonce is the empty string: `||` takes the default for both.
generateSignatureWithNonce(data, timestamp, nonce, t, rnd) ==
  LET ts == IF timestamp = 0 THEN t ELSE timestamp
      nonceValue == IF nonce = <<>> THEN rnd ELSE nonce
      signData == NumToString(ts) \o <<":">> \o nonceValue \o <<":">> \o data
  IN encrypt(signData)

\* A variant of verifyChecks that takes the third field alone as the payload
\* (parts[2] in place of parts.slice(2).join(':')).
MutantSliceChecks(signature, data, maxAge, t) ==
  LET d == decrypt(signature)
      parts == split(d.text, ":")
      timestamp == parseInt(parts[1])
      nonce == parts[2]
      originalData == parts[3]
      age == JsSub(JsNum(t), timestamp)
  IN IF ~d.ok THEN [exit |-> "catch", nonce |-> <<>>]
     ELSE IF Len(parts) < 3 THEN [exit |-> "parts", nonce |-> <<>>]
     ELSE IF originalData # data THEN [exit |-> "payload", nonce |-> <<>>]
     ELSE IF JsLt(age, JsNum(0)) \/ JsGt(age, JsNum(maxAge))
          THEN [exit |-> "age", nonce |-> <<>>]
     ELSE [exit |-> "guard", nonce |-> nonce]

\* A variant of verifyChecks that does not compare the payload.
MutantGuardBeforeAge(signature, data, maxAge, t) ==
  LET d == decrypt(signature)
      parts == split(d.text, ":")
      nonce == parts[2]
      originalData == join(slice(parts, 2), ":")
  IN IF ~d.ok THEN [exit |-> "catch", nonce |-> <<>>]
     ELSE IF Len(parts) < 3 THEN [exit |-> "parts", nonce |-> <<>>]
     ELSE IF originalData # data THEN [exit |-> "payload", nonce |-> <<>>]
     ELSE [exit |-> "guard", nonce |-> nonce]

MutantNoPayloadChecks(signature, data, maxAge, t) ==
  LET d == decrypt(signature)
      parts == split(d.text, ":")
      timestamp == parseInt(parts[1])
      nonce == parts[2]
      age == JsSub(JsNum(t), timestamp)
  IN IF ~d.ok THEN [exit |-> "catch", nonce |-> <<>>]
     ELSE IF Len(parts) < 3 THEN [exit |-> "parts", nonce |-> <<>>]
     ELSE IF JsLt(age, JsNum(0)) \/ JsGt(age, JsNum(maxAge))
          THEN [exit |-> "age", nonce |-> <<>>]
     ELSE [exit |-> "guard", nonce |-> nonce]

\* verifySignatureWithNonce up to the replay guard (the synchronous part of
\* the function, lines 213-236 and the catch of line 254), with Date.now()
\* equal to t.  exit names the return statement taken; "guard" means that the
\* payload and timestamp checks have passed and the nonce goes to the guard.
verifyChecks(signature, data, maxAge, t) ==
  LET d == decrypt(signature)
      parts == split(d.text, ":")
      timestamp == parseInt(parts[1])
      nonce == parts[2]
      originalData == join(slice(parts, 2), ":")
      age == JsSub(JsNum(t), timestamp)
  IN IF ~d.ok THEN [exit |-> "catch", nonce |-> <<>>]
     ELSE IF Len(parts) < 3 THEN [exit |-> "parts", nonce |-> <<>>]
     ELSE IF originalData # data THEN [exit |-> "payload", nonce |-> <<>>]
     ELSE IF JsLt(age, JsNum(0)) \/ JsGt(age, JsNum(maxAge))
          THEN [exit |-> "age", nonce |-> <<>>]
     ELSE [exit |-> "guard", nonce |-> nonce]

\* checkNonceWithMemory(nonce) on the set used: the answer and the set after.
checkNonceWithMemory(nonce, used) ==
  IF nonce \in used THEN [result |-> FALSE, used |-> used]
  ELSE [result |-> TRUE, used |-> used \cup {nonce}]

\* The shared store's keys "nonce:<nonce>": a set of [key, exp], exp being the
\* time at which the key expires.  A key is gone once the time is past exp.
RedisLive(store, t) == {e \in store : e.exp >= t}

RedisHas(store, key, t) == \E e \in RedisLive(store, t) : e.key = key

\* A variant of redisSetNX without NX: the SET overwrites an existing key.
MutantSetWithoutNX(store, key, ttl, t) ==
  [ok |-> TRUE,
   store |-> {e \in RedisLive(store, t) : e.key # key}
               \cup {[key |-> key, exp |-> t + ttl]}]

\* redis.set(key, '1', 'PX', ttl, 'NX') executed by the store at time t:
\* 'OK' (ok = TRUE) and the key set when it is absent, null when it exists.
redisSetNX(store, key, ttl, t) ==
  IF RedisHas(store, key, t) THEN [ok |-> FALSE, store |-> RedisLive(store, t)]
  ELSE [ok |-> TRUE,
        store |-> RedisLive(store, t) \cup {[key |-> key, exp |-> t + ttl]}]

\* isRedisAvailable(): the client exists and its status is ready or connect.
\* A variant of nonceFailOpen that treats the nonce as used when the store
\* fails.
MutantNonceFailClosed == FALSE

\* The catch of checkNonceWithRedis: return true.
nonceFailOpen == TRUE

isRedisAvailable(status) == status \in {"ready", "connect"}

\* The statuses of the ioredis client the model distinguishes.
RedisStatuses == {"ready", "reconnecting"}

\* ---------------------------------------------------- the auth middleware
\* generateSignature(data, timestamp): the token of the older verifySignature,
\* `${ts}:${data}`, which has no nonce field.
generateSignature(data, timestamp, t) ==
  LET ts == IF timestamp = 0 THEN t ELSE timestamp
  IN encrypt(NumToString(ts) \o <<":">> \o data)

\* The canonical serialisations (JSON.stringify of the body or the query
\* without its signature field) the requests carry; one contains the ':'
\* that also delimits the fields of a token.
Payloads == {<<"a">>, <<"a", ":", "a">>}
EmptyObject == <<"{", "}">>
Nonces == {<<"x">>, <<"y">>}

\* No signature at a place of the request (undefined or empty: falsy).
NoSignature == [fmt |-> "none", key |-> "", text |-> <<>>]

\* The tokens a caller can send when Date.now() is t: those of the signer, for
\* every payload, explicit or omitted timestamp and nonce; a token of the
\* older signer; a plaintext assembled by hand whose timestamp field is not a
\* number; a token encrypted under another key; a string that is no token.
SignedTokens(t) ==
  {generateSignatureWithNonce(p, ts, <<>>, t, <<"x">>) :
     p \in Payloads, ts \in 0..MaxTime}
  \cup {generateSignatureWithNonce(<<"a">>, 0, <<"y">>, t, <<"x">>)}

ForeignTokens ==
  {GarbledToken,
   encryptUnder(OtherKey, <<"1", ":", "x", ":", "a">>),
   generateSignature(<<"a">>, 1, 1),
   encrypt(<<"a", ":", "x", ":", "a">>)}

Tokens(t) == SignedTokens(t) \cup ForeignTokens

\* A request: its method, the serialised body and query, and the signature
\* at each of the three places it may travel in.  POST requests carry payload
\* and signature in the body, GET requests in the query.
Request(m, p, tok) ==
  [method |-> m,
   body |-> IF m = "POST" THEN p ELSE EmptyObject,
   query |-> IF m = "POST" THEN EmptyObject ELSE p,
   querySignature |-> IF m = "POST" THEN NoSignature ELSE tok,
   bodySignature |-> IF m = "POST" THEN tok ELSE NoSignature,
   headerSignature |-> NoSignature]

Requests(t) ==
  {Request("POST", p, tok) : p \in Payloads, tok \in Tokens(t) \cup {NoSignature}}
  \cup {Request("GET", p, generateSignatureWithNonce(<<"a">>, 0, <<>>, t, <<"x">>)) :
          p \in Payloads}

\* extractSignature(req): the query's, else the body's, else the header's.
extractSignature(req) ==
  IF req.querySignature # NoSignature THEN req.querySignature
  ELSE IF req.bodySignature # NoSignature THEN req.bodySignature
  ELSE req.headerSignature

\* generateDataToVerify(req): the body for POST, PUT and PATCH, else the query.
generateDataToVerify(req) ==
  IF req.method \in {"POST", "PUT", "PATCH"} THEN req.body ELSE req.query

\* What verifyAESAuth answers: next(), or a response with a status and a code.
NextCalled == [next |-> TRUE, status |-> 0, code |-> "", message |-> ""]

Respond(status, code, message) ==
  [next |-> FALSE, status |-> status, code |-> code, message |-> message]

MutantMissingCallsNext == NextCalled

\* What verifyAESAuth answers a request that carries no signature.
missingSignature == Respond(401, "MISSING_SIGNATURE", "missing signature")

\* A variant of authOutcome that tells the caller when the nonce was reused.
MutantTellsReplay(valid, exit) ==
  IF valid THEN NextCalled
  ELSE IF exit = "nonce" THEN Respond(401, "NONCE_REUSED", "nonce used")
  ELSE Respond(401, "INVALID_SIGNATURE", "signature verification failed")

\* A variant of authOutcome that goes on to next() after the 401.
MutantRespondsAndNext(valid, exit) ==
  IF valid THEN NextCalled
  ELSE [next |-> TRUE, status |-> 401, code |-> "INVALID_SIGNATURE",
        message |-> "signature verification failed"]

\* verifyAESAuth once verifySignatureWithNonce has returned verifyResult.
authOutcome(valid, exit) ==
  IF valid THEN NextCalled
  ELSE Respond(401, "INVALID_SIGNATURE", "signature verification failed")

\* ------------------------------------------------------- the rate limiter
\* The requests the rate limiter sees: x-forwarded-for as the list of its
\* comma-separated, trimmed entries (empty: no header), req.ip, req.path.
RateRequests ==
  {[forwarded |-> <<"c1", "proxy">>, ip |-> "10.0.0.1", path |-> "/chat"],
   [forwarded |-> <<>>, ip |-> "c1", path |-> "/chat"]}

getClientId(req) ==
  IF req.forwarded # <<>> THEN Head(req.forwarded)
  ELSE IF req.ip # "" THEN req.ip
  ELSE "unknown"

\* `${clientId}:${req.path}`
RateKey(req) == <<getClientId(req), req.path>>

RateKeys == {RateKey(req) : req \in RateRequests}

\* memoryStore[key] of a key that has no record.
NoRecord == [count |-> 0, resetTime |-> 0]

\* A variant of checkRateLimitWithMemory that never starts a new window for a
\* key that has a record.
MutantKeepsWindow(store, key, limit, window, t) ==
  LET record == store[key]
  IN IF record = NoRecord
     THEN [result |-> [allowed |-> TRUE, count |-> 1, resetTime |-> t + window],
           store |-> [store EXCEPT ![key] =
                        [count |-> 1, resetTime |-> t + window]]]
     ELSE [result |-> [allowed |-> record.count + 1 <= limit,
                       count |-> record.count + 1,
                       resetTime |-> record.resetTime],
           store |-> [store EXCEPT ![key].count = record.count + 1]]

\* checkRateLimitWithMemory(key, maxRequests, windowMs) at Date.now() = t:
\* the result it returns and the store it leaves.
checkRateLimitWithMemory(store, key, limit, window, t) ==
  LET record == store[key]
  IN IF record = NoRecord \/ record.resetTime < t
     THEN [result |-> [allowed |-> TRUE, count |-> 1, resetTime |-> t + window],
           store |-> [store EXCEPT ![key] =
                        [count |-> 1, resetTime |-> t + window]]]
     ELSE [result |-> [allowed |-> record.count + 1 <= limit,
                       count |-> record.count + 1,
                       resetTime |-> record.resetTime],
           store |-> [store EXCEPT ![key].count = record.count + 1]]

\* A variant of sweepMemoryStore that deletes a record at its reset time.
MutantSweepsAtReset(store, t) ==
  [key \in DOMAIN store |->
     IF store[key] # NoRecord /\ store[key].resetTime <= t
     THEN NoRecord ELSE store[key]]

\* The setInterval callback of rateLimit.ts at Date.now() = t.
sweepMemoryStore(store, t) ==
  [key \in DOMAIN store |->
     IF store[key] # NoRecord /\ store[key].resetTime < t
     THEN NoRecord ELSE store[key]]

\* A key of the shared store that does not exist; exp = 0 is a key that has
\* no expiry.
NoKey == [count |-> 0, exp |-> 0]

\* The shared store drops a key once the clock has passed its expiry.
RateLive(store, t) ==
  [key \in DOMAIN store |->
     IF store[key].exp # 0 /\ t > store[key].exp THEN NoKey ELSE store[key]]

\* redis.incr(windowKey): the new value; a key that did not exist is
\* created with no expiry.
redisIncr(store, key, t) ==
  LET live == RateLive(store, t)
  IN [count |-> live[key].count + 1,
      store |-> [live EXCEPT ![key].count = live[key].count + 1]]

\* redis.pexpire(windowKey, windowMs)
redisPexpire(store, key, window, t) ==
  LET live == RateLive(store, t)
  IN IF live[key] = NoKey THEN live
     ELSE [live EXCEPT ![key].exp = t + window]

\* redis.pttl(windowKey): -2 for a key that does not exist, -1 for a key
\* that has no expiry.
redisPttl(store, key, t) ==
  LET live == RateLive(store, t)
  IN IF live[key] = NoKey THEN -2
     ELSE IF live[key].exp = 0 THEN -1
     ELSE live[key].exp - t

\* The return statement of checkRateLimitWithRedis, from the value of INCR,
\* the value of PTTL and the now it read first.
redisResult(count, ttl, limit, window, t) ==
  [allowed |-> count <= limit, count |-> count,
   resetTime |-> t + (IF ttl > 0 THEN ttl ELSE window)]

\* checkRateLimitWithRedis(redis, key, maxRequests, windowMs) at Date.now()
\* = t when every command is answered: INCR, PEXPIRE after the INCR that
\* returned 1, PTTL; the result it returns and the keys it leaves.
checkRateLimitWithRedis(store, key, limit, window, t) ==
  LET incr == redisIncr(store, key, t)
      after == IF incr.count = 1
               THEN redisPexpire(incr.store, key, window, t)
               ELSE incr.store
  IN [result |-> redisResult(incr.count, redisPttl(after, key, t), limit,
                             window, t),
      store |-> after]

\* A variant of redisFailOpen that rejects the request when the store fails.
MutantFailClosed(window, t) ==
  [allowed |-> FALSE, count |-> 0, resetTime |-> t + window]

\* The catch of checkRateLimitWithRedis at Date.now() = t.
redisFailOpen(window, t) ==
  [allowed |-> TRUE, count |-> 0, resetTime |-> t + window]

\* Math.ceil(x / 1000)
CeilDiv1000(x) == IF x > 0 THEN (x + 999) \div 1000 ELSE -((-x) \div 1000)

\* rateLimitMiddleware once the check has returned result, at Date.now() = t.
rateOutcome(result, t) ==
  IF ~result.allowed
  THEN [next |-> FALSE, status |-> 429, code |-> "RATE_LIMIT_EXCEEDED",
        retryAfter |-> CeilDiv1000(result.resetTime - t)]
  ELSE [next |-> TRUE, status |-> 0, code |-> "", retryAfter |-> 0]

\* ------------------------------------------------------------- the server
\* The middleware the server registers, in the order of its initialization:
\* setupBasicMiddleware (cors, json, urlencoded), setupRequestLogging,
\* setupAuthMiddleware, setupRoutes, setupHealthCheck, setupErrorHandling.
ServerStack ==
  <<"cors", "json", "urlencoded", "requestLog", "auth", "routes",
    "healthCheck", "notFound", "errorHandler">>

\* The admission stage a middleware implements ("": none).
AdmissionStage(mw) ==
  CASE mw = "ipFilter" -> "ip"
    [] mw = "rateLimit" -> "rate"
    [] mw = "auth" -> "signature"
    [] mw = "costControl" -> "quota"
    [] OTHER -> ""

RECURSIVE StagesBefore(_, _)
\* The admission stages a request has passed when it reaches mw: those of
\* the middleware registered before it.
StagesBefore(stack, mw) ==
  IF stack = <<>> \/ Head(stack) = mw THEN <<>>
  ELSE (IF AdmissionStage(Head(stack)) = "" THEN <<>>
        ELSE <<AdmissionStage(Head(stack))>>) \o StagesBefore(Tail(stack), mw)

NotServed == [done |-> FALSE, path |-> "", stages |-> <<>>]

\* ------------------------------------------------------ the quota enforcer
\* The requests costControlMiddleware sees: req.body.max_tokens (0: absent),
\* the x-user-id header ("": absent) and req.ip.
QuotaRequests ==
  {[max_tokens |-> m, userId |-> u.userId, ip |-> u.ip] :
     m \in {0, MAX_TOKENS_PER_REQUEST, MAX_TOKENS_PER_REQUEST + 1},
     u \in {[userId |-> "u1", ip |-> "10.0.0.1"], [userId |-> "", ip |-> "u1"]}}

\* req.headers['x-user-id'] || req.ip
QuotaUser(req) == IF req.userId # "" THEN req.userId ELSE req.ip

QuotaUsers == {QuotaUser(req) : req \in QuotaRequests}

\* userQuotas.get(userId) of a caller that has no record.
NoQuota ==
  [dailyCount |-> 0, dailyResetTime |-> 0,
   monthlyCount |-> 0, monthlyResetTime |-> 0]

QuotaProceed == [next |-> TRUE, status |-> 0, code |-> ""]

QuotaReject(status, code) == [next |-> FALSE, status |-> status, code |-> code]

\* maxTokens && maxTokens > MAX_TOKENS_PER_REQUEST
MutantNoTokenCheck(req) == FALSE

tokenLimitExceeded(req) ==
  req.max_tokens # 0 /\ req.max_tokens > MAX_TOKENS_PER_REQUEST

\* The record of a caller that has none, created at Date.now() = t.
newQuota(t) ==
  [dailyCount |-> 0, dailyResetTime |-> t + DayMs,
   monthlyCount |-> 0, monthlyResetTime |-> t + MonthMs]

\* The daily reset at Date.now() = t.
resetDaily(quota, t) ==
  IF quota.dailyResetTime < t
  THEN [quota EXCEPT !.dailyCount = 0, !.dailyResetTime = t + DayMs]
  ELSE quota

MutantResetsBoth(quota, t) ==
  IF quota.monthlyResetTime < t
  THEN [quota EXCEPT !.monthlyCount = 0, !.monthlyResetTime = t + MonthMs,
                     !.dailyCount = 0]
  ELSE quota

\* The monthly reset at Date.now() = t.
resetMonthly(quota, t) ==
  IF quota.monthlyResetTime < t
  THEN [quota EXCEPT !.monthlyCount = 0, !.monthlyResetTime = t + MonthMs]
  ELSE quota

\* The record costControlMiddleware checks at Date.now() = t: created when
\* the caller has none, then its daily and its monthly counter reset when
\* their reset time has passed.
quotaRecord(quotas, userId, t) ==
  resetMonthly(resetDaily(IF quotas[userId] = NoQuota THEN newQuota(t)
                          ELSE quotas[userId], t), t)

MutantMonthlyFirst(quota) ==
  IF quota.monthlyCount >= MONTHLY_LIMIT THEN "MONTHLY_QUOTA_EXCEEDED"
  ELSE IF quota.dailyCount >= DAILY_LIMIT THEN "DAILY_QUOTA_EXCEEDED"
  ELSE ""

\* A variant of quotaVerdict that rejects only above the limits.
MutantAdmitsAtLimit(quota) ==
  IF quota.dailyCount > DAILY_LIMIT THEN "DAILY_QUOTA_EXCEEDED"
  ELSE IF quota.monthlyCount > MONTHLY_LIMIT THEN "MONTHLY_QUOTA_EXCEEDED"
  ELSE ""

\* The code of the rejection the limit checks answer with ("": none): the
\* daily limit is checked first, then the monthly limit.
quotaVerdict(quota) ==
  IF quota.dailyCount >= DAILY_LIMIT THEN "DAILY_QUOTA_EXCEEDED"
  ELSE IF quota.monthlyCount >= MONTHLY_LIMIT THEN "MONTHLY_QUOTA_EXCEEDED"
  ELSE ""

MutantCountsDailyOnly(quota) == [quota EXCEPT !.dailyCount = @ + 1]

\* quota.dailyCount++; quota.monthlyCount++
quotaIncrement(quota) ==
  [quota EXCEPT !.dailyCount = @ + 1, !.monthlyCount = @ + 1]

\* costControlMiddleware(req, res, next) at Date.now() = t: what it answers
\* and the userQuotas it leaves.  The record it fetched is changed in place,
\* so a rejection by a limit keeps the creation and the resets.
costControlMiddleware(quotas, req, t) ==
  LET userId == QuotaUser(req)
      quota == quotaRecord(quotas, userId, t)
      code == quotaVerdict(quota)
  IN IF tokenLimitExceeded(req)
     THEN [outcome |-> QuotaReject(400, "TOKEN_LIMIT_EXCEEDED"),
           quotas |-> quotas]
     ELSE IF code # ""
     THEN [outcome |-> QuotaReject(429, code),
           quotas |-> [quotas EXCEPT ![userId] = quota]]
     ELSE [outcome |-> QuotaProceed,
           quotas |-> [quotas EXCEPT ![userId] = quotaIncrement(quota)]]

MutantRefundsFailure(quotas, userId, failed) ==
  IF failed
  THEN [quotas EXCEPT ![userId].dailyCount = @ - 1,
                      ![userId].monthlyCount = @ - 1]
  ELSE quotas

\* The POST /api/chat handler once llmClient.chat has returned or thrown:
\* neither the handler nor its catch touches userQuotas.
chatHandlerQuotas(quotas, userId, failed) == quotas

NoAdmission ==
  [done |-> FALSE, user |-> "", max_tokens |-> 0, at |-> 0,
   pre |-> NoQuota, post |-> NoQuota, outcome |-> QuotaProceed,
   upstream |-> "none"]

\* ------------------------------------------------------- the session store
SessionIds == {"s1"}

\* The messages a batch is made of.
Messages == {"m1", "m2"}

\* The batches handed to addMessages.
Batches == {<<>>} \cup {<<m>> : m \in Messages}
             \cup {<<m, n>> : m \in Messages, n \in Messages}

\* sessions.get(sessionId) of a session that does not exist.
NoSession == [messages |-> <<>>, createdAt |-> 0, updatedAt |-> 0]

MutantSameArray(array) == [shared |-> TRUE, items |-> array]

\* [...array]: a new array object with the elements of array; shared tells
\* whether the result is the very object it was given.
spread(array) == [shared |-> FALSE, items |-> array]

\* The sessions of store that are past the idle TTL at Date.now() = t.
expiredSessions(store, t) ==
  {sid \in DOMAIN store :
     store[sid] # NoSession /\ t - store[sid].updatedAt > sessionTTL}

MutantReadsStale(store, sessionId, t) ==
  [returned |-> store[sessionId].messages, shared |-> FALSE, store |-> store]

MutantReadConsumes(store, sessionId, t) ==
  [returned |-> IF t - store[sessionId].updatedAt > sessionTTL THEN <<>>
                ELSE store[sessionId].messages,
   shared |-> FALSE, store |-> [store EXCEPT ![sessionId] = NoSession]]

\* A variant of getSessionMessages where a read counts as activity.
MutantReadRefreshes(store, sessionId, t) ==
  LET session == store[sessionId]
  IN IF session = NoSession
     THEN [returned |-> <<>>, shared |-> FALSE, store |-> store]
     ELSE IF t - session.updatedAt > sessionTTL
     THEN [returned |-> <<>>, shared |-> FALSE,
           store |-> [store EXCEPT ![sessionId] = NoSession]]
     ELSE [returned |-> session.messages, shared |-> FALSE,
           store |-> [store EXCEPT ![sessionId].updatedAt = t]]

\* getSessionMessages(sessionId) at Date.now() = t: the array it returns and
\* the sessions it leaves.
getSessionMessages(store, sessionId, t) ==
  LET session == store[sessionId]
  IN IF session = NoSession
     THEN [returned |-> <<>>, shared |-> FALSE, store |-> store]
     ELSE IF t - session.updatedAt > sessionTTL
     THEN [returned |-> <<>>, shared |-> FALSE,
           store |-> [store EXCEPT ![sessionId] = NoSession]]
     ELSE [returned |-> spread(session.messages).items,
           shared |-> spread(session.messages).shared, store |-> store]

MutantKeepsUpdatedAt(store, sessionId, messages, t) ==
  LET session == store[sessionId]
  IN IF Len(messages) = 0 THEN store
     ELSE IF session # NoSession
     THEN [store EXCEPT ![sessionId].messages = @ \o messages]
     ELSE [store EXCEPT ![sessionId] =
             [messages |-> messages, createdAt |-> t, updatedAt |-> t]]

MutantPrependsBatch(store, sessionId, messages, t) ==
  LET session == store[sessionId]
  IN IF Len(messages) = 0 THEN store
     ELSE IF session # NoSession
     THEN [store EXCEPT ![sessionId].messages = messages \o @,
                        ![sessionId].updatedAt = t]
     ELSE [store EXCEPT ![sessionId] =
             [messages |-> messages, createdAt |-> t, updatedAt |-> t]]

\* addMessages(sessionId, messages) at Date.now() = t.
addMessages(store, sessionId, messages, t) ==
  LET session == store[sessionId]
  IN IF Len(messages) = 0 THEN store
     ELSE IF session # NoSession
     THEN [store EXCEPT ![sessionId].messages = @ \o messages,
                        ![sessionId].updatedAt = t]
     ELSE [store EXCEPT ![sessionId] =
             [messages |-> messages, createdAt |-> t, updatedAt |-> t]]

\* addMessage(sessionId, message) at Date.now() = t.
addMessage(store, sessionId, message, t) ==
  LET session == store[sessionId]
  IN IF session # NoSession
     THEN [store EXCEPT ![sessionId].messages = Append(@, message),
                        ![sessionId].updatedAt = t]
     ELSE [store EXCEPT ![sessionId] =
             [messages |-> <<message>>, createdAt |-> t, updatedAt |-> t]]

\* clearSession(sessionId)
clearSession(store, sessionId) == [store EXCEPT ![sessionId] = NoSession]

\* cleanupExpiredSessions() at Date.now() = t.
cleanupExpiredSessions(store, t) ==
  [sid \in DOMAIN store |->
     IF store[sid] # NoSession /\ t - store[sid].updatedAt > sessionTTL
     THEN NoSession ELSE store[sid]]

NoSessionOp ==
  [done |-> FALSE, op |-> "", sid |-> "", present |-> FALSE, live |-> FALSE,
   returned |-> <<>>, expected |-> <<>>, removed |-> {}, expired |-> {},
   empty |-> FALSE]

\* The array a caller holds: nothing before the first read.
NoHeld == [sid |-> "", shared |-> FALSE, items |-> <<>>, own |-> <<>>]

\* ------------------------------------------------- the middleware chain
\* The IP filter: the lists it splits IP_WHITELIST and IP_BLACKLIST into, and
\* ENABLE_IP_WHITELIST === 'true', ENABLE_IP_BLACKLIST !== 'false'.
DefaultIpConfig ==
  [whitelist |-> <<>>, blacklist |-> <<>>, enableWhitelist |-> FALSE,
   enableBlacklist |-> TRUE]

\* The environments the filter is created in: nothing set, the client's
\* address on the blacklist, and a whitelist of other addresses switched on.
IpConfigs ==
  {DefaultIpConfig,
   [DefaultIpConfig EXCEPT !.blacklist = <<"c1">>],
   [DefaultIpConfig EXCEPT !.whitelist = <<"c9">>, !.enableWhitelist = TRUE]}

\* array.includes(x)
Includes(array, x) == \E i \in 1..Len(array) : array[i] = x

\* getClientIp(req) of ipFilter.ts: the first entry of x-forwarded-for, else
\* req.ip, else 'unknown'.
getClientIp(req) ==
  IF req.forwarded # <<>> THEN Head(req.forwarded)
  ELSE IF req.ip # "" THEN req.ip
  ELSE "unknown"

IpProceed == [next |-> TRUE, status |-> 0, code |-> ""]

Forbidden(code) == [next |-> FALSE, status |-> 403, code |-> code]

\* A variant of ipFilterMiddleware that answers a blacklisted address 404.
MutantHidesBlacklist(config, clientIp) ==
  IF config.enableBlacklist /\ Includes(config.blacklist, clientIp)
  THEN [next |-> FALSE, status |-> 404, code |-> "NOT_FOUND"]
  ELSE IF /\ config.enableWhitelist
          /\ Len(config.whitelist) > 0
          /\ ~Includes(config.whitelist, clientIp)
  THEN Forbidden("IP_NOT_WHITELISTED")
  ELSE IpProceed

\* The middleware ipFilterMiddleware() returns, for a request from clientIp.
ipFilterMiddleware(config, clientIp) ==
  IF config.enableBlacklist /\ Includes(config.blacklist, clientIp)
  THEN Forbidden("IP_BLACKLISTED")
  ELSE IF /\ config.enableWhitelist
          /\ Len(config.whitelist) > 0
          /\ ~Includes(config.whitelist, clientIp)
  THEN Forbidden("IP_NOT_WHITELISTED")
  ELSE IpProceed

\* The middleware an /api request goes through, in the order server.ts is
\* to apply them, and the route handler behind them.
PipelineStack == <<"ipFilter", "rateLimit", "auth", "costControl", "handler">>

StageAfter(stage) ==
  LET i == CHOOSE j \in 1..Len(PipelineStack) : PipelineStack[j] = stage
  IN IF i < Len(PipelineStack) THEN PipelineStack[i + 1] ELSE "done"

\* A variant of nextStage where the chain goes on after a response.
MutantRunsOn(stage, next) == StageAfter(stage)

\* Where a request is once the middleware stage has returned: at the
\* following one when it called next(), at its end when it responded and
\* returned.
nextStage(stage, next) == IF next THEN StageAfter(stage) ELSE "done"

\* The requests that go through the chain, by the order they arrive in.
PipeRequestNumbers == {1, 2}

\* No request in the chain.
NoPipe ==
  [stage |-> "idle", n |-> 0, req |-> <<>>, rejectedBy |-> "",
   outcome |-> [status |-> 0, code |-> ""],
   rate |-> [backend |-> "none", key |-> <<>>, count |-> 0],
   nonce |-> [grant |-> "none", value |-> <<>>]]

\* ------------------------------------------------- the route handlers
\* A route handler that is not running: pc is where it stands (idle, at
\* "upstream" inside await llmClient.chat(), or "done" when it has answered),
\* history is what getSessionMessages returned to it, current its own
\* messages, sent the list it gave to llmClient.chat(), reply the assistant
\* message, saved the batch it gave to addMessages, and stored the session's
\* messages right after it saved.
NoHandler ==
  [pc |-> "idle", sid |-> "", history |-> <<>>, current |-> <<>>,
   sent |-> <<>>, reply |-> <<>>, saved |-> <<>>, stored |-> <<>>]

NoHandlers == [r \in {1, 2} |-> NoHandler]

\* ------------------------------------------------------------------ state
VARIABLES
  now,            \* Date.now()
  redisStatus,    \* redisClient.status
  enableAESAuth,  \* config.auth.enableAESAuth
  usedNonces,     \* crypto.ts: the in-memory set of consumed nonces
  redisNonces,    \* the shared store's "nonce:*" keys
  authFlight,     \* per request slot: a verification awaiting redis.set
  authLast,       \* the verification that has just returned, with its answer
  accepted,       \* history: the nonces carried by a verification that
                  \* returned valid:true
  memoryGranted,  \* history: the nonces the in-memory guard has answered
                  \* "unused" for since the set was last cleared
  maxRequests,    \* config.rateLimit.maxRequests
  memoryStore,    \* rateLimit.ts: the in-memory window records
  redisRate,      \* the shared store's "ratelimit:*" keys
  rateFlight,     \* per request slot: a rate-limit check awaiting the store
  rateLast,       \* the rate-limit check that has just ended, with its answer
  arrivals,       \* history: the requests that arrived at the present instant
  recent,         \* history: the requests admitted at each of the last
                  \* windowMs instants, the present one first
  memStart,       \* history: when the first request of the present window
                  \* of the in-memory limiter arrived (0: no window yet)
  memIndex,       \* history: the requests the in-memory limiter has checked
                  \* in that window
  served,         \* the request that has just reached a route handler, with
                  \* the admission stages the server ran it through
  userQuotas,     \* costControl: the quota record of each caller
  quotaLast,      \* the request costControlMiddleware has just answered, and
                  \* where its upstream call stands
  sessions,       \* MessageStore.sessions
  sessionLast,    \* the operation of the session store that has just ended
  appended,       \* history: per session, the batches appended since the
                  \* record was created, concatenated
  held            \* the array the last getSessionMessages returned, in the
                  \* hands of its caller: whether it is the array object of
                  \* the stored session (shared), its elements (items), and
                  \* history (own): what was returned with the caller's own
                  \* changes
  ,
  ipConfig,       \* ipFilterMiddleware(): the lists and switches it read
                  \* from the environment when it was created
  pipe            \* the request the middleware chain is handling: the
                  \* middleware it has reached, and history: who rejected it
                  \* with what, and what the stages it passed have written
  ,
  handlers        \* the route handlers of /api/analyze and /api/chat that
                  \* are running: the history each one read, the messages
                  \* it sent upstream, and what the store held when it saved

authOnlyVars ==
  <<enableAESAuth, usedNonces, redisNonces, authFlight, authLast, accepted,
    memoryGranted>>

rateOnlyVars ==
  <<maxRequests, memoryStore, redisRate, rateFlight, rateLast, arrivals,
    recent, memStart, memIndex>>

appOnlyVars ==
  <<served, userQuotas, quotaLast, sessions, sessionLast, appended, held,
    ipConfig, pipe, handlers>>

vars == <<now, redisStatus, authOnlyVars, rateOnlyVars, appOnlyVars>>

\* The requests the auth middleware may have in flight at once.
Slots == {1, 2}

IdleSlot ==
  [pc |-> "idle", signature |-> NoSignature, data |-> <<>>, at |-> 0,
   nonce |-> <<>>, peerValid |-> FALSE, peerRedis |-> FALSE,
   peerError |-> FALSE]

NoVerification ==
  [done |-> FALSE, verified |-> FALSE, signature |-> NoSignature,
   data |-> <<>>, at |-> 0, doneAt |-> 0, valid |-> FALSE, exit |-> "",
   grant |-> "none", inMemory |-> FALSE, inRedis |-> FALSE,
   replayed |-> FALSE, peerValid |-> FALSE,
   peerRedis |-> FALSE, peerError |-> FALSE, memoryHeld |-> FALSE,
   outcome |-> NextCalled]

\* The fields of a token's plaintext read off the text by position: the
\* timestamp is the text before the first ':', the nonce the text between the
\* first and the second ':', the embedded payload everything after the
\* second ':'.
RECURSIVE IndexOf(_, _, _)
IndexOf(s, c, from) ==
  IF from > Len(s) THEN 0
  ELSE IF s[from] = c THEN from
  ELSE IndexOf(s, c, from + 1)

FirstColon(s) == IndexOf(s, ":", 1)
SecondColon(s) == IF FirstColon(s) = 0 THEN 0 ELSE IndexOf(s, ":", FirstColon(s) + 1)
Decryptable(tok) == tok.fmt = "iv:data" /\ tok.key = ServerKey
WellFormed(tok) == Decryptable(tok) /\ SecondColon(tok.text) # 0
TimestampField(tok) == SubSeq(tok.text, 1, FirstColon(tok.text) - 1)
NonceField(tok) == SubSeq(tok.text, FirstColon(tok.text) + 1, SecondColon(tok.text) - 1)
EmbeddedPayload(tok) == SubSeq(tok.text, SecondColon(tok.text) + 1, Len(tok.text))
IsNumeral(s) == s # <<>> /\ \A i \in 1..Len(s) : IsDigit(s[i])
RECURSIVE NumeralValue(_)
NumeralValue(s) ==
  IF s = <<>> THEN 0
  ELSE 10 * NumeralValue(SubSeq(s, 1, Len(s) - 1)) + DigitValue(s[Len(s)])

\* The slots in flight after a verification of nonce n in slot r has returned
\* (on the grant of the shared store when byRedis): slot r is free, and every
\* other verification of n that is still waiting has a valid one as its peer.
NotePeers(flight, r, n, valid, by) ==
  [q \in Slots |->
     IF q = r THEN IdleSlot
     ELSE IF valid /\ flight[q].pc = "set" /\ flight[q].nonce = n
          THEN [flight[q] EXCEPT !.peerValid = TRUE,
                                 !.peerRedis = (by = "redis") \/ @,
                                 !.peerError = (by = "error") \/ @]
     ELSE flight[q]]

\* A request slot of the rate limiter: where checkRateLimitWithRedis stands
\* (the command it awaits), its key, the now it read and the value of INCR.
IdleCheck == [pc |-> "idle", key |-> <<>>, at |-> 0, count |-> 0]

NoCheck ==
  [done |-> FALSE, backend |-> "none", key |-> <<>>, at |-> 0,
   result |-> [allowed |-> TRUE, count |-> 0, resetTime |-> 0],
   outcome |-> rateOutcome([allowed |-> TRUE, count |-> 0, resetTime |-> 0], 0),
   sinceFirst |-> -1, prior |-> 0, index |-> 0]

\* The signature engine before any request.
AuthIdle ==
  /\ usedNonces = {}
  /\ redisNonces = {}
  /\ authFlight = [r \in Slots |-> IdleSlot]
  /\ authLast = NoVerification
  /\ accepted = {}
  /\ memoryGranted = {}

\* The rate limiter before any request.
RateIdle ==
  /\ memoryStore = [key \in RateKeys |-> NoRecord]
  /\ redisRate = [key \in RateKeys |-> NoKey]
  /\ rateFlight = [r \in Slots |-> IdleCheck]
  /\ rateLast = NoCheck
  /\ arrivals = 0
  /\ recent = [i \in 1..windowMs |-> 0]
  /\ memStart = 0
  /\ memIndex = 0

\* The server, the quota enforcer and the session store before any request.
AppIdle ==
  /\ served = NotServed
  /\ userQuotas = [user \in QuotaUsers |-> NoQuota]
  /\ quotaLast = NoAdmission
  /\ sessions = [sid \in SessionIds |-> NoSession]
  /\ sessionLast = NoSessionOp
  /\ appended = [sid \in SessionIds |-> <<>>]
  /\ held = NoHeld
  /\ ipConfig = DefaultIpConfig
  /\ pipe = NoPipe
  /\ handlers = NoHandlers

AuthInit ==
  /\ now = 1
  /\ redisStatus \in RedisStatuses
  /\ enableAESAuth \in BOOLEAN
  /\ maxRequests = MaxLimit
  /\ AuthIdle
  /\ RateIdle
  /\ AppIdle

RateInit ==
  /\ now = 1
  /\ redisStatus \in RedisStatuses
  /\ enableAESAuth = TRUE
  /\ maxRequests \in 0..MaxLimit
  /\ AuthIdle
  /\ RateIdle
  /\ AppIdle

\* Time passes; the shared store drops the keys whose expiry has passed.  A
\* round trip to the shared store is short against the unit of the clock
\* (the client gives a command up after 3 retries of at most 2 s): the clock
\* does not advance while a command is in flight.
Tick(limit) ==
  /\ now < limit
  /\ \A r \in Slots : authFlight[r].pc = "idle" /\ rateFlight[r].pc = "idle"
  /\ now' = now + 1
  /\ redisNonces' = RedisLive(redisNonces, now + 1)
  /\ redisRate' = RateLive(redisRate, now + 1)
  /\ authLast' = NoVerification
  /\ rateLast' = NoCheck
  /\ arrivals' = 0
  /\ recent' = [i \in 1..windowMs |-> IF i = 1 THEN 0 ELSE recent[i - 1]]
  /\ quotaLast.upstream # "pending"
  /\ served' = NotServed
  /\ quotaLast' = NoAdmission
  /\ sessionLast' = NoSessionOp
  /\ UNCHANGED <<redisStatus, enableAESAuth, usedNonces, authFlight, accepted,
                 memoryGranted, maxRequests, memoryStore, rateFlight,
                 memStart, memIndex, userQuotas, sessions, appended, held,
                 ipConfig, pipe, handlers>>

\* The connection to the shared store is lost or comes back.
RedisStatusChange ==
  /\ redisStatus' \in RedisStatuses \ {redisStatus}
  /\ authLast' = NoVerification
  /\ rateLast' = NoCheck
  /\ UNCHANGED <<now, enableAESAuth, usedNonces, redisNonces, authFlight,
                 accepted, memoryGranted, maxRequests, memoryStore, redisRate,
                 rateFlight, arrivals, recent, memStart, memIndex>>
  /\ UNCHANGED appOnlyVars

\* The setInterval callback of crypto.ts: the whole set is cleared once it
\* holds more than the threshold.
sweepNonces(used) == IF Cardinality(used) > NonceSweepThreshold THEN {} ELSE used

NonceSweep ==
  /\ usedNonces' = sweepNonces(usedNonces)
  /\ usedNonces' # usedNonces
  /\ memoryGranted' = {}
  /\ authLast' = NoVerification
  /\ UNCHANGED <<now, redisStatus, enableAESAuth, redisNonces, authFlight,
                 accepted>>
  /\ UNCHANGED rateOnlyVars
  /\ UNCHANGED appOnlyVars

\* A verification that has returned: what it was given and what it answered.
Verified(sig, data, at, valid, exit, grant, nonce, slot) ==
  [done |-> TRUE, verified |-> TRUE, signature |-> sig, data |-> data,
   at |-> at, doneAt |-> now, valid |-> valid, exit |-> exit, grant |-> grant,
   inMemory |-> nonce \in usedNonces,
   inRedis |-> RedisHas(redisNonces, nonce, now),
   replayed |-> valid /\ nonce \in accepted,
   peerValid |-> slot.peerValid, peerRedis |-> slot.peerRedis,
   peerError |-> slot.peerError,
   memoryHeld |-> grant = "memory" /\ nonce \in memoryGranted,
   outcome |-> authOutcome(valid, exit)]

\* verifyAESAuth(req, res, next) for a request arriving in slot r, up to the
\* first point where it waits: the whole middleware when auth is disabled,
\* the signature is missing, a check of verifySignatureWithNonce fails or the
\* in-memory guard is used; up to the redis.set command otherwise.
verifyAESAuth(r, req) ==
  LET signature == extractSignature(req)
      dataToVerify == generateDataToVerify(req)
      chk == verifyChecks(signature, dataToVerify, signatureMaxAge, now)
      mem == checkNonceWithMemory(chk.nonce, usedNonces)
  IN
  /\ authFlight[r].pc = "idle"
  /\ \A q \in 1..(r - 1) : authFlight[q].pc # "idle"
  /\ UNCHANGED <<now, redisStatus, enableAESAuth, redisNonces>>
  /\ UNCHANGED rateOnlyVars
  /\ UNCHANGED appOnlyVars
  /\ IF ~enableAESAuth
     THEN /\ authLast' = [NoVerification EXCEPT !.done = TRUE, !.doneAt = now]
          /\ UNCHANGED <<usedNonces, authFlight, accepted, memoryGranted>>
     ELSE IF signature = NoSignature
     THEN /\ authLast' =
               [NoVerification EXCEPT
                  !.done = TRUE, !.doneAt = now,
                  !.outcome = missingSignature]
          /\ UNCHANGED <<usedNonces, authFlight, accepted, memoryGranted>>
     ELSE IF chk.exit # "guard"
     THEN /\ authLast' = Verified(signature, dataToVerify, now, FALSE, chk.exit,
                                  "none", <<>>, IdleSlot)
          /\ UNCHANGED <<usedNonces, authFlight, accepted, memoryGranted>>
     ELSE IF isRedisAvailable(redisStatus)
     THEN /\ authFlight' =
               [authFlight EXCEPT ![r] =
                  [pc |-> "set", signature |-> signature, data |-> dataToVerify,
                   at |-> now, nonce |-> chk.nonce, peerValid |-> FALSE,
                   peerRedis |-> FALSE, peerError |-> FALSE]]
          /\ authLast' = NoVerification
          /\ UNCHANGED <<usedNonces, accepted, memoryGranted>>
     ELSE /\ usedNonces' = mem.used
          /\ authLast' =
               Verified(signature, dataToVerify, now, mem.result,
                        IF mem.result THEN "valid" ELSE "nonce", "memory",
                        chk.nonce, IdleSlot)
          /\ accepted' = IF mem.result THEN accepted \cup {chk.nonce} ELSE accepted
          /\ memoryGranted' = IF mem.result THEN memoryGranted \cup {chk.nonce}
                              ELSE memoryGranted
          /\ authFlight' = NotePeers(authFlight, r, chk.nonce, mem.result, "memory")

\* checkNonceWithRedis: the shared store executes the SET and answers, and
\* verifySignatureWithNonce and verifyAESAuth run to their end.
RedisSetReply(r) ==
  LET f == authFlight[r]
      res == redisSetNX(redisNonces, f.nonce, signatureMaxAge, now)
  IN
  /\ f.pc = "set"
  /\ redisNonces' = res.store
  /\ authLast' = Verified(f.signature, f.data, f.at, res.ok,
                          IF res.ok THEN "valid" ELSE "nonce", "redis",
                          f.nonce, f)
  /\ accepted' = IF res.ok THEN accepted \cup {f.nonce} ELSE accepted
  /\ authFlight' = NotePeers(authFlight, r, f.nonce, res.ok, "redis")
  /\ UNCHANGED <<now, redisStatus, enableAESAuth, usedNonces, memoryGranted>>
  /\ UNCHANGED rateOnlyVars
  /\ UNCHANGED appOnlyVars

\* checkNonceWithRedis: the command fails (connection lost, retries used up)
\* and the catch answers true.
RedisSetError(r) ==
  LET f == authFlight[r]
  IN
  /\ f.pc = "set"
  /\ authLast' = Verified(f.signature, f.data, f.at, nonceFailOpen,
                          IF nonceFailOpen THEN "valid" ELSE "nonce", "error",
                          f.nonce, f)
  /\ accepted' = IF nonceFailOpen THEN accepted \cup {f.nonce} ELSE accepted
  /\ authFlight' = NotePeers(authFlight, r, f.nonce, nonceFailOpen, "error")
  /\ UNCHANGED <<now, redisStatus, enableAESAuth, usedNonces, redisNonces,
                 memoryGranted>>
  /\ UNCHANGED rateOnlyVars
  /\ UNCHANGED appOnlyVars

\* The signature engine on every kind of request, one request at a time.
AuthNext ==
  \/ Tick(MaxTime)
  \/ RedisStatusChange
  \/ NonceSweep
  \/ \E req \in Requests(now) : verifyAESAuth(1, req)
  \/ RedisSetReply(1)
  \/ RedisSetError(1)

AuthSpec == AuthInit /\ [][AuthNext]_vars

\* The replay guard under concurrent requests.  Every nonce belongs to one
\* signature: the requests carry the token signed at time 1 with nonce x or
\* the token signed at time 2 with nonce y, each for the payload it carries,
\* and may be sent and sent again at any time from the signing on.
ReplayTokens ==
  {generateSignatureWithNonce(<<"a">>, 0, <<>>, 1, <<"x">>),
   generateSignatureWithNonce(<<"a">>, 0, <<>>, 2, <<"y">>)}

ReplayRequests(t) ==
  {Request("POST", <<"a">>, tok) :
     tok \in {k \in ReplayTokens : NumeralValue(TimestampField(k)) <= t}}

ReplayNext ==
  \/ Tick(MaxTime)
  \/ RedisStatusChange
  \/ NonceSweep
  \/ \E r \in Slots : \E req \in ReplayRequests(now) : verifyAESAuth(r, req)
  \/ \E r \in Slots : RedisSetReply(r)
  \/ \E r \in Slots : RedisSetError(r)

ReplaySpec == AuthInit /\ [][ReplayNext]_vars

\* ----------------------------------------------------- the server: actions
ApiPaths == {"/api/chat", "/api/models", "/api/analyze"}

\* The admission stages the server has run a request for path through when
\* a route handler gets it: the wrapper of setupAuthMiddleware calls
\* verifyAESAuth for the paths that start with /api only.
StagesFor(path) ==
  SelectSeq(StagesBefore(ServerStack, "routes"),
            LAMBDA st : st # "signature" \/ path \in ApiPaths)

\* app.use('/api/chat', chatRouter) and the other routers of setupRoutes: the
\* request verifyAESAuth has called next() for reaches its route handler.
RouteHandler ==
  /\ authLast.done /\ authLast.outcome.next
  /\ ~served.done
  /\ \E path \in ApiPaths :
       served' = [done |-> TRUE, path |-> path, stages |-> StagesFor(path)]
  /\ UNCHANGED <<now, redisStatus, authOnlyVars, rateOnlyVars, userQuotas,
                 quotaLast, sessions, sessionLast, appended, held,
                 ipConfig, pipe, handlers>>

\* app.get('/') of setupHealthCheck: the auth wrapper lets the root path
\* through without a signature.
HealthCheck ==
  /\ ~served.done
  /\ \A r \in Slots : authFlight[r].pc = "idle"
  /\ ~authLast.done
  /\ served' = [done |-> TRUE, path |-> "/", stages |-> StagesFor("/")]
  /\ UNCHANGED <<now, redisStatus, authOnlyVars, rateOnlyVars, userQuotas,
                 quotaLast, sessions, sessionLast, appended, held,
                 ipConfig, pipe, handlers>>

\* The server as it is started: requests for /api paths go through
\* verifyAESAuth and then to their route, the root path to the health check.
ServerNext ==
  \/ Tick(MaxTime)
  \/ RedisStatusChange
  \/ NonceSweep
  \/ \E req \in ReplayRequests(now) : verifyAESAuth(1, req)
  \/ RedisSetReply(1)
  \/ RedisSetError(1)
  \/ RouteHandler
  \/ HealthCheck

ServerSpec == AuthInit /\ [][ServerNext]_vars

\* --------------------------------------------------- rate limiter: actions
\* A rate-limit check that has ended: what it returned and what the
\* middleware answered, with the place of the request in the window of the
\* in-memory limiter (sinceFirst: the time since the first request of the
\* window the limiter was in when the request arrived, -1 when it was in
\* none; prior: the requests it had checked in that window; index: the
\* number of the request in the window it was counted in).
Checked(backend, key, at, result, sinceFirst, prior, index) ==
  [done |-> TRUE, backend |-> backend, key |-> key, at |-> at,
   result |-> result, outcome |-> rateOutcome(result, now),
   sinceFirst |-> sinceFirst, prior |-> prior, index |-> index]

Admit(result) ==
  [recent EXCEPT ![1] = IF result.allowed THEN @ + 1 ELSE @]

\* The middleware returned by rateLimitMiddleware() for a request arriving
\* in slot r, up to the first point where it waits: the whole middleware on
\* the in-memory store, up to the redis.incr command otherwise.
rateLimitMiddleware(r, req) ==
  LET key == RateKey(req)
      mem == checkRateLimitWithMemory(memoryStore, key, maxRequests, windowMs, now)
      fresh == memStart = 0 \/ now - memStart > windowMs
  IN
  /\ rateFlight[r].pc = "idle"
  /\ \A q \in 1..(r - 1) : rateFlight[q].pc # "idle"
  /\ arrivals < MaxArrivals
  /\ arrivals' = arrivals + 1
  /\ UNCHANGED <<now, redisStatus, maxRequests, redisRate>>
  /\ UNCHANGED authOnlyVars
  /\ UNCHANGED appOnlyVars
  /\ IF isRedisAvailable(redisStatus)
     THEN /\ rateFlight' =
               [rateFlight EXCEPT ![r] =
                  [pc |-> "incr", key |-> key, at |-> now, count |-> 0]]
          /\ rateLast' = NoCheck
          /\ UNCHANGED <<memoryStore, recent, memStart, memIndex>>
     ELSE /\ memoryStore' = mem.store
          /\ memStart' = IF fresh THEN now ELSE memStart
          /\ memIndex' = IF fresh THEN 1 ELSE memIndex + 1
          /\ rateLast' = Checked("memory", key, now, mem.result,
                                 IF memStart = 0 THEN -1 ELSE now - memStart,
                                 memIndex, memIndex')
          /\ recent' = Admit(mem.result)
          /\ UNCHANGED rateFlight

\* checkRateLimitWithRedis: the shared store executes INCR and answers.
RedisIncrReply(r) ==
  LET f == rateFlight[r]
      res == redisIncr(redisRate, f.key, now)
  IN
  /\ f.pc = "incr"
  /\ redisRate' = res.store
  /\ rateFlight' =
       [rateFlight EXCEPT ![r].count = res.count,
                          ![r].pc = IF res.count = 1 THEN "pexpire" ELSE "pttl"]
  /\ rateLast' = NoCheck
  /\ UNCHANGED <<now, redisStatus, maxRequests, memoryStore, arrivals, recent,
                 memStart, memIndex>>
  /\ UNCHANGED authOnlyVars
  /\ UNCHANGED appOnlyVars

\* checkRateLimitWithRedis: the shared store executes PEXPIRE and answers.
RedisPexpireReply(r) ==
  LET f == rateFlight[r]
  IN
  /\ f.pc = "pexpire"
  /\ redisRate' = redisPexpire(redisRate, f.key, windowMs, now)
  /\ rateFlight' = [rateFlight EXCEPT ![r].pc = "pttl"]
  /\ rateLast' = NoCheck
  /\ UNCHANGED <<now, redisStatus, maxRequests, memoryStore, arrivals, recent,
                 memStart, memIndex>>
  /\ UNCHANGED authOnlyVars
  /\ UNCHANGED appOnlyVars

\* checkRateLimitWithRedis: the shared store answers PTTL, and the check and
\* the middleware run to their end.
RedisPttlReply(r) ==
  LET f == rateFlight[r]
      ttl == redisPttl(redisRate, f.key, now)
      result == redisResult(f.count, ttl, maxRequests, windowMs, f.at)
  IN
  /\ f.pc = "pttl"
  /\ rateFlight' = [rateFlight EXCEPT ![r] = IdleCheck]
  /\ rateLast' = Checked("redis", f.key, f.at, result, -1, 0, 0)
  /\ recent' = Admit(result)
  /\ UNCHANGED <<now, redisStatus, maxRequests, memoryStore, redisRate,
                 arrivals, memStart, memIndex>>
  /\ UNCHANGED authOnlyVars
  /\ UNCHANGED appOnlyVars

\* checkRateLimitWithRedis: the command it awaits fails, and the catch
\* answers allowed.
RedisRateError(r) ==
  LET f == rateFlight[r]
      result == redisFailOpen(windowMs, now)
  IN
  /\ f.pc \in {"incr", "pexpire", "pttl"}
  /\ rateFlight' = [rateFlight EXCEPT ![r] = IdleCheck]
  /\ rateLast' = Checked("error", f.key, f.at, result, -1, 0, 0)
  /\ recent' = Admit(result)
  /\ UNCHANGED <<now, redisStatus, maxRequests, memoryStore, redisRate,
                 arrivals, memStart, memIndex>>
  /\ UNCHANGED authOnlyVars
  /\ UNCHANGED appOnlyVars

\* The setInterval callback of rateLimit.ts runs and deletes a record.
RateSweep ==
  /\ memoryStore' = sweepMemoryStore(memoryStore, now)
  /\ memoryStore' # memoryStore
  /\ rateLast' = NoCheck
  /\ UNCHANGED <<now, redisStatus, maxRequests, redisRate, rateFlight,
                 arrivals, recent, memStart, memIndex>>
  /\ UNCHANGED authOnlyVars
  /\ UNCHANGED appOnlyVars

\* The rate limiter, one request at a time.
RateNext ==
  \/ Tick(MaxRateTime)
  \/ RedisStatusChange
  \/ RateSweep
  \/ \E req \in RateRequests : rateLimitMiddleware(1, req)
  \/ RedisIncrReply(1)
  \/ RedisPexpireReply(1)
  \/ RedisPttlReply(1)
  \/ RedisRateError(1)

RateSpec == RateInit /\ [][RateNext]_vars

\* The rate limiter with what its scheduling guarantees: the clock goes on,
\* and a command waiting while the connection is lost is failed by the
\* client once its reconnection attempts are used up (maxRetriesPerRequest).
\* No timeout is set on a command (the client is created without
\* commandTimeout), so nothing ends the wait for a store that is connected
\* and does not answer.
RateLiveSpec ==
  /\ RateSpec
  /\ WF_vars(Tick(MaxRateTime))
  /\ SF_vars(~isRedisAvailable(redisStatus) /\ RedisRateError(1))

\* The same requests at the same instants to both backends: to a process
\* that keeps its windows in memory and to one that keeps them in a shared
\* store which answers every command.
CheckBoth(req) ==
  LET key == RateKey(req)
  IN
  /\ arrivals < MaxArrivals
  /\ arrivals' = arrivals + 1
  /\ memoryStore' =
       checkRateLimitWithMemory(memoryStore, key, maxRequests, windowMs,
                                now).store
  /\ redisRate' =
       checkRateLimitWithRedis(redisRate, key, maxRequests, windowMs,
                               now).store
  /\ UNCHANGED <<now, redisStatus, maxRequests, rateFlight, rateLast, recent,
                 memStart, memIndex>>
  /\ UNCHANGED authOnlyVars
  /\ UNCHANGED appOnlyVars

BackendsNext ==
  \/ Tick(MaxRateTime)
  \/ RateSweep
  \/ \E req \in RateRequests : CheckBoth(req)

BackendsSpec == RateInit /\ [][BackendsNext]_vars

\* ------------------------------------------------ quota enforcer: actions
\* The quota enforcer and the session store keep their state in the memory
\* of the process: the shared store and the auth switch play no part.
AppInit ==
  /\ now = 1
  /\ redisStatus = "reconnecting"
  /\ enableAESAuth = TRUE
  /\ maxRequests = MaxLimit
  /\ AuthIdle
  /\ RateIdle
  /\ AppIdle

\* A request goes through costControlMiddleware; the one it calls next() for
\* goes on to the chat handler, which calls the upstream model.
costControl(req) ==
  /\ quotaLast.upstream # "pending"
  /\ LET res == costControlMiddleware(userQuotas, req, now)
         user == QuotaUser(req)
     IN /\ userQuotas' = res.quotas
        /\ quotaLast' =
             [done |-> TRUE, user |-> user, max_tokens |-> req.max_tokens,
              at |-> now, pre |-> userQuotas[user], post |-> res.quotas[user],
              outcome |-> res.outcome,
              upstream |-> IF res.outcome.next THEN "pending" ELSE "none"]
  /\ UNCHANGED <<now, redisStatus, authOnlyVars, rateOnlyVars, served,
                 sessions, sessionLast, appended, held,
                 ipConfig, pipe, handlers>>

\* llmClient.chat returns: the handler stores the messages and responds.
UpstreamReply ==
  /\ quotaLast.upstream = "pending"
  /\ userQuotas' = chatHandlerQuotas(userQuotas, quotaLast.user, FALSE)
  /\ quotaLast' = [quotaLast EXCEPT !.upstream = "ok"]
  /\ UNCHANGED <<now, redisStatus, authOnlyVars, rateOnlyVars, served,
                 sessions, sessionLast, appended, held,
                 ipConfig, pipe, handlers>>

\* llmClient.chat throws: the catch of the handler calls handleApiError.
UpstreamError ==
  /\ quotaLast.upstream = "pending"
  /\ userQuotas' = chatHandlerQuotas(userQuotas, quotaLast.user, TRUE)
  /\ quotaLast' = [quotaLast EXCEPT !.upstream = "failed"]
  /\ UNCHANGED <<now, redisStatus, authOnlyVars, rateOnlyVars, served,
                 sessions, sessionLast, appended, held,
                 ipConfig, pipe, handlers>>

QuotaNext ==
  \/ Tick(MaxQuotaTime)
  \/ \E req \in QuotaRequests : costControl(req)
  \/ UpstreamReply
  \/ UpstreamError

QuotaSpec == AppInit /\ [][QuotaNext]_vars

\* ------------------------------------------------- session store: actions
\* The sessions an operation removes when it takes the store to after.
removedBy(after) ==
  {sid \in SessionIds : sessions[sid] # NoSession /\ after[sid] = NoSession}

\* What an operation leaves in sessionLast: the sessions it removed and the
\* ones that were past the idle TTL when it ran.
SessionOp(op, sid, after) ==
  [done |-> TRUE, op |-> op, sid |-> sid,
   present |-> sid \in SessionIds /\ sessions[sid] # NoSession,
   live |-> /\ sid \in SessionIds /\ sessions[sid] # NoSession
            /\ sid \notin expiredSessions(sessions, now),
   returned |-> <<>>, expected |-> <<>>,
   removed |-> removedBy(after), expired |-> expiredSessions(sessions, now),
   empty |-> FALSE]

\* The history of a session follows its record: it starts with the batch
\* that creates the record and ends when the record is deleted.
History(store, sid, sofar) == IF store[sid] = NoSession THEN <<>> ELSE sofar

\* The array in the caller's hands once the store is after: a stored array
\* that was handed out changes with the session it belongs to, and is the
\* caller's alone once the session is deleted.
heldAfter(after) ==
  IF held.shared /\ held.sid \in SessionIds
  THEN IF after[held.sid] = NoSession THEN [held EXCEPT !.shared = FALSE]
       ELSE [held EXCEPT !.items = after[held.sid].messages]
  ELSE held

ReadSession(sid) ==
  LET res == getSessionMessages(sessions, sid, now)
  IN /\ sessions' = res.store
     /\ appended' = [appended EXCEPT ![sid] = History(res.store, sid, @)]
     /\ sessionLast' =
          [SessionOp("read", sid, res.store) EXCEPT
             !.returned = res.returned, !.expected = appended[sid]]
     /\ held' = [sid |-> sid, shared |-> res.shared, items |-> res.returned,
                 own |-> res.returned]
     /\ UNCHANGED <<now, redisStatus, authOnlyVars, rateOnlyVars, served,
                    userQuotas, quotaLast, ipConfig, pipe, handlers>>

AppendBatch(sid, batch) ==
  /\ Len(sessions[sid].messages) + Len(batch) <= MaxMessages
  /\ LET after == addMessages(sessions, sid, batch, now)
     IN /\ sessions' = after
        /\ sessionLast' = [SessionOp("addMessages", sid, after) EXCEPT
                             !.empty = (batch = <<>>)]
        /\ held' = heldAfter(after)
  /\ appended' = [appended EXCEPT ![sid] = @ \o batch]
  /\ UNCHANGED <<now, redisStatus, authOnlyVars, rateOnlyVars, served,
                 userQuotas, quotaLast, ipConfig, pipe, handlers>>

AppendOne(sid, message) ==
  /\ Len(sessions[sid].messages) + 1 <= MaxMessages
  /\ LET after == addMessage(sessions, sid, message, now)
     IN /\ sessions' = after
        /\ sessionLast' = SessionOp("addMessage", sid, after)
        /\ held' = heldAfter(after)
  /\ appended' = [appended EXCEPT ![sid] = Append(@, message)]
  /\ UNCHANGED <<now, redisStatus, authOnlyVars, rateOnlyVars, served,
                 userQuotas, quotaLast, ipConfig, pipe, handlers>>

ClearSession(sid) ==
  /\ sessions[sid] # NoSession
  /\ LET after == clearSession(sessions, sid)
     IN /\ sessions' = after
        /\ sessionLast' = SessionOp("clearSession", sid, after)
        /\ held' = heldAfter(after)
  /\ appended' = [appended EXCEPT ![sid] = <<>>]
  /\ UNCHANGED <<now, redisStatus, authOnlyVars, rateOnlyVars, served,
                 userQuotas, quotaLast, ipConfig, pipe, handlers>>

\* The cleanup timer fires.
CleanupExpired ==
  LET kept == cleanupExpiredSessions(sessions, now)
  IN /\ kept # sessions
     /\ sessions' = kept
     /\ appended' = [sid \in SessionIds |-> History(kept, sid, appended[sid])]
     /\ sessionLast' = SessionOp("cleanupExpiredSessions", "", kept)
     /\ held' = heldAfter(kept)
     /\ UNCHANGED <<now, redisStatus, authOnlyVars, rateOnlyVars, served,
                    userQuotas, quotaLast, ipConfig, pipe, handlers>>

\* The caller of getSessionMessages changes the array it was given: a stored
\* array that was handed out is the session's messages, and changes with it.
callerChanges(items) ==
  /\ held.sid \in SessionIds
  /\ held' = [held EXCEPT !.items = items, !.own = items]
  /\ sessions' = IF held.shared
                 THEN [sessions EXCEPT ![held.sid].messages = items]
                 ELSE sessions
  /\ UNCHANGED <<now, redisStatus, authOnlyVars, rateOnlyVars, served,
                 userQuotas, quotaLast, appended, ipConfig, pipe, handlers>>

\* returned.push(message)
CallerPush(message) ==
  /\ Len(held.items) < MaxMessages
  /\ callerChanges(Append(held.items, message))
  /\ sessionLast' = SessionOp("callerPush", held.sid, sessions)

\* returned.pop()
CallerPop ==
  /\ Len(held.items) > 0
  /\ callerChanges(SubSeq(held.items, 1, Len(held.items) - 1))
  /\ sessionLast' = SessionOp("callerPop", held.sid, sessions)

SessionNext ==
  \/ Tick(MaxSessionTime)
  \/ \E sid \in SessionIds : ReadSession(sid)
  \/ \E sid \in SessionIds : \E batch \in Batches : AppendBatch(sid, batch)
  \/ \E sid \in SessionIds : \E m \in Messages : AppendOne(sid, m)
  \/ \E sid \in SessionIds : ClearSession(sid)
  \/ CleanupExpired
  \/ \E m \in Messages : CallerPush(m)
  \/ CallerPop

SessionSpec == AppInit /\ [][SessionNext]_vars

\* ------------------------------------------- the middleware chain: actions
\* The requests for /api/chat: a POST whose body carries the payload, the
\* signature (a token of the signer, none, or a string that is no token)
\* and max_tokens, from client c1 behind a proxy, with the x-user-id header.
PipeRequests(t) ==
  {[method |-> "POST", body |-> <<"a">>, query |-> EmptyObject,
    querySignature |-> NoSignature, bodySignature |-> tok,
    headerSignature |-> NoSignature,
    forwarded |-> r.forwarded, ip |-> r.ip, path |-> r.path,
    max_tokens |-> m, userId |-> "u1"] :
     tok \in {k \in ReplayTokens : NumeralValue(TimestampField(k)) <= t}
              \cup {NoSignature, GarbledToken},
     r \in {q \in RateRequests : q.forwarded # <<>>},
     m \in {0, MAX_TOKENS_PER_REQUEST + 1}}

PipelineInit ==
  /\ now = 1
  /\ redisStatus \in RedisStatuses
  /\ enableAESAuth = TRUE
  /\ maxRequests \in 1..MaxLimit
  /\ AuthIdle
  /\ RateIdle
  /\ served = NotServed
  /\ userQuotas = [user \in QuotaUsers |-> NoQuota]
  /\ quotaLast = NoAdmission
  /\ sessions = [sid \in SessionIds |-> NoSession]
  /\ sessionLast = NoSessionOp
  /\ appended = [sid \in SessionIds |-> <<>>]
  /\ held = NoHeld
  /\ ipConfig \in IpConfigs
  /\ pipe = NoPipe
  /\ handlers = NoHandlers

\* app.use(ipFilterMiddleware()): a request enters the chain at the IP
\* filter, which answers 403 or calls next().
ipFilter(req) ==
  LET out == ipFilterMiddleware(ipConfig, getClientIp(req))
  IN
  /\ pipe.stage = "idle"
  /\ arrivals < MaxArrivals
  /\ pipe.n + 1 \in PipeRequestNumbers
  /\ pipe' = [NoPipe EXCEPT
                !.stage = nextStage("ipFilter", out.next),
                !.n = pipe.n + 1,
                !.req = req,
                !.rejectedBy = IF out.next THEN "" ELSE "ipFilter",
                !.outcome = [status |-> out.status, code |-> out.code]]
  /\ UNCHANGED <<now, redisStatus, authOnlyVars, rateOnlyVars, served,
                 userQuotas, quotaLast, sessions, sessionLast, appended, held,
                 ipConfig, handlers>>

\* What the middleware the request is at has answered, once it has.
StageAnswer ==
  CASE pipe.stage = "rateLimit" ->
         [done |-> rateLast.done, next |-> rateLast.outcome.next,
          status |-> rateLast.outcome.status, code |-> rateLast.outcome.code]
    [] pipe.stage = "auth" ->
         [done |-> authLast.done, next |-> authLast.outcome.next,
          status |-> authLast.outcome.status, code |-> authLast.outcome.code]
    [] pipe.stage = "costControl" ->
         [done |-> quotaLast.done, next |-> quotaLast.outcome.next,
          status |-> quotaLast.outcome.status, code |-> quotaLast.outcome.code]
    [] OTHER -> [done |-> FALSE, next |-> FALSE, status |-> 0, code |-> ""]

\* The middleware the request is at returns: the chain goes on with the
\* following one when it has called next(), and ends when it has responded.
Proceed ==
  LET ans == StageAnswer
  IN
  /\ ans.done
  /\ pipe' = [pipe EXCEPT
                !.stage = nextStage(pipe.stage, ans.next),
                !.rejectedBy = IF ans.next \/ pipe.rejectedBy # "" THEN @
                               ELSE pipe.stage,
                !.outcome = IF ans.next \/ pipe.rejectedBy # "" THEN @
                            ELSE [status |-> ans.status, code |-> ans.code],
                !.rate = IF pipe.stage = "rateLimit"
                         THEN [backend |-> rateLast.backend,
                               key |-> rateLast.key,
                               count |-> rateLast.result.count]
                         ELSE @,
                !.nonce = IF pipe.stage = "auth" /\ authLast.valid
                          THEN [grant |-> authLast.grant,
                                value |-> NonceField(authLast.signature)]
                          ELSE @]
  /\ UNCHANGED <<now, redisStatus, authOnlyVars, rateOnlyVars, served,
                 userQuotas, quotaLast, sessions, sessionLast, appended, held,
                 ipConfig, handlers>>

\* The response has been sent, by the middleware that rejected the request
\* or by the route handler once the upstream call has ended: the request and
\* what the middleware answered it are gone.
Finish ==
  /\ \/ pipe.stage = "done"
     \/ pipe.stage = "handler" /\ quotaLast.upstream \in {"ok", "failed"}
  /\ pipe' = [NoPipe EXCEPT !.n = pipe.n]
  /\ rateLast' = NoCheck
  /\ authLast' = NoVerification
  /\ quotaLast' = NoAdmission
  /\ UNCHANGED <<now, redisStatus, enableAESAuth, usedNonces, redisNonces,
                 authFlight, accepted, memoryGranted, maxRequests,
                 memoryStore, redisRate, rateFlight, arrivals, recent,
                 memStart, memIndex, served, userQuotas, sessions,
                 sessionLast, appended, held, ipConfig,
                 handlers>>

\* The event loop runs a timer or a connection event only when no middleware
\* is running: between two requests, or while one awaits the shared store.
Awaiting ==
  \/ pipe.stage = "idle"
  \/ \E r \in Slots : rateFlight[r].pc # "idle" \/ authFlight[r].pc # "idle"

\* The chain of part_000, one request at a time.  No record of the in-memory
\* limiter expires before MaxTime, so that its timer finds nothing to delete.
PipelineNext ==
  \/ pipe.stage = "idle" /\ Tick(MaxTime)
  \/ Awaiting /\ RedisStatusChange
  \/ Awaiting /\ NonceSweep
  \/ \E req \in PipeRequests(now) : ipFilter(req)
  \/ pipe.stage = "rateLimit" /\ ~rateLast.done
       /\ rateLimitMiddleware(1, pipe.req)
  \/ RedisIncrReply(1)
  \/ RedisPexpireReply(1)
  \/ RedisPttlReply(1)
  \/ RedisRateError(1)
  \/ pipe.stage = "auth" /\ ~authLast.done /\ verifyAESAuth(1, pipe.req)
  \/ RedisSetReply(1)
  \/ RedisSetError(1)
  \/ pipe.stage = "costControl" /\ ~quotaLast.done /\ costControl(pipe.req)
  \/ pipe.stage = "handler" /\ UpstreamReply
  \/ pipe.stage = "handler" /\ UpstreamError
  \/ Proceed
  \/ Finish

PipelineSpec == PipelineInit /\ [][PipelineNext]_vars

\* ------------------------------------------------- claims: signature engine
\* Whether Date.now() = at lies in the validity window of the token: its
\* timestamp field is a number ts and 0 <= at - ts <= maxAge.
InWindow(tok, at) ==
  /\ WellFormed(tok)
  /\ IsNumeral(TimestampField(tok))
  /\ 0 <= at - NumeralValue(TimestampField(tok))
  /\ at - NumeralValue(TimestampField(tok)) <= signatureMaxAge

InvalidSignatureResponse ==
  Respond(401, "INVALID_SIGNATURE", "signature verification failed")

\* C1: for every nonce, at most one verification carrying it returns
\* valid:true while the signature that owns it is inside its validity window,
\* whatever sweeps, store errors and changes of backend happen in between.
\* (Under ReplaySpec a nonce belongs to a single signature.)
C1_NoNonceAcceptedTwice ==
  ~(authLast.verified /\ authLast.valid /\ authLast.replayed
      /\ InWindow(authLast.signature, authLast.at))

C3_RoundTrip ==
  \A p \in Payloads, t \in 1..MaxTime, n \in Nonces :
    /\ authLast.verified
    /\ authLast.signature = generateSignatureWithNonce(p, 0, <<>>, t, n)
    /\ authLast.data = p
    =>
    /\ /\ authLast.at >= t
       /\ authLast.at - t < signatureMaxAge
       /\ ~authLast.inMemory /\ ~authLast.inRedis
       => authLast.valid
    /\ authLast.at - t > signatureMaxAge => ~authLast.valid

\* C3, witness: a payload containing ':' has made the round trip inside the window.
C3_Witness ==
  /\ authLast.verified /\ authLast.valid
  /\ authLast.data = <<"a", ":", "a">>
  /\ \E t \in 1..MaxTime, n \in Nonces :
       authLast.signature = generateSignatureWithNonce(authLast.data, t, n, t, n)

\* C4: a token whose embedded payload is not the payload supplied by the
\* caller is rejected, also inside its validity window with an unused nonce.
C4_PayloadMismatchRejected ==
  /\ authLast.verified
  /\ WellFormed(authLast.signature)
  /\ EmbeddedPayload(authLast.signature) # authLast.data
  => ~authLast.valid /\ ~authLast.outcome.next

\* C4, witness: a token inside its window, with a nonce never used, whose embedded payload
\* differs from the supplied one, has been verified.
C4_Witness ==
  /\ authLast.verified
  /\ InWindow(authLast.signature, authLast.at)
  /\ EmbeddedPayload(authLast.signature) # authLast.data
  /\ NonceField(authLast.signature) \notin usedNonces \cup accepted
  /\ ~RedisHas(redisNonces, NonceField(authLast.signature), now)

\* C5: every accepted verification satisfies 0 <= now - timestamp <= maxAge.
C5_AcceptedInsideWindow ==
  authLast.verified /\ authLast.valid
    => InWindow(authLast.signature, authLast.at)

\* The reason a verification has to fail for, read off its inputs: a token
\* that is no "iv:data" text or has fewer than three fields (malformed), a
\* token under another key, a payload that differs, a timestamp in the
\* future or older than maxAge; and off the guard's answer, a replayed nonce.
FailureReason(v) ==
  IF v.signature.fmt # "iv:data" THEN "malformed"
  ELSE IF v.signature.key # ServerKey THEN "wrong key"
  ELSE IF ~WellFormed(v.signature) THEN "malformed"
  ELSE IF EmbeddedPayload(v.signature) # v.data THEN "payload mismatch"
  ELSE IF IsNumeral(TimestampField(v.signature))
          /\ v.at < NumeralValue(TimestampField(v.signature)) THEN "future"
  ELSE IF IsNumeral(TimestampField(v.signature))
          /\ v.at - NumeralValue(TimestampField(v.signature)) > signatureMaxAge
       THEN "expired"
  ELSE IF v.exit = "nonce" THEN "replayed"
  ELSE "none"

C7_FirstNThenReject ==
  rateLast.done /\ rateLast.backend = "memory"
  => IF rateLast.index <= maxRequests
     THEN rateLast.outcome.next
     ELSE /\ ~rateLast.outcome.next
          /\ rateLast.outcome.status = 429
          /\ rateLast.outcome.code = "RATE_LIMIT_EXCEEDED"
          /\ rateLast.outcome.retryAfter > 0

\* C8, as stated: a request that arrives when windowMs has elapsed since the
\* first request of the window is admitted and counted 1.
C8_ResetWhenElapsed ==
  /\ rateLast.done /\ rateLast.backend = "memory"
  /\ rateLast.sinceFirst >= windowMs
  => rateLast.result.allowed /\ rateLast.result.count = 1

\* C8, amended: a request that arrives when more than windowMs has elapsed
\* since the first request of the window starts a new window on the
\* in-memory limiter: it is admitted, counted 1, and the window ends windowMs
\* later, however many requests the old window counted.
C8_ResetAfterWindow ==
  /\ rateLast.done /\ rateLast.backend = "memory"
  /\ rateLast.sinceFirst > windowMs
  => /\ rateLast.result.allowed /\ rateLast.result.count = 1
     /\ rateLast.result.resetTime = rateLast.at + windowMs
     /\ rateLast.outcome.next
     /\ memoryStore[rateLast.key] =
          [count |-> 1, resetTime |-> rateLast.at + windowMs]

\* C8, witness: a window that was exhausted has been replaced by a new one.
C8_Witness ==
  /\ rateLast.done /\ rateLast.backend = "memory"
  /\ rateLast.sinceFirst > windowMs
  /\ rateLast.prior > maxRequests
  /\ rateLast.result.count = 1

\* C9: every check returns allowed = (count <= maxRequests).
C9_AllowedIffWithinLimit ==
  rateLast.done
    => (rateLast.result.allowed <=> rateLast.result.count <= maxRequests)

RECURSIVE SumTo(_, _)
SumTo(f, n) == IF n = 0 THEN 0 ELSE f[n] + SumTo(f, n - 1)

\* C10: the requests admitted in the interval of length windowMs that ends
\* now are at most 2 x maxRequests.
C10_BurstBound ==
  SumTo(recent, windowMs) <= 2 * maxRequests

\* C11: on the in-memory limiter the k-th request checked in a window
\* observes the count k (no increment is lost, no count is seen twice) and
\* is admitted exactly when k is within the capacity maxRequests.
C11_ConsecutiveCountsWithinCapacity ==
  rateLast.done /\ rateLast.backend = "memory"
  => /\ rateLast.result.count = rateLast.index
     /\ rateLast.outcome.next <=> rateLast.index <= maxRequests

\* C12: a rate-limit check in which INCR, PEXPIRE or PTTL fails ends with
\* next() called and no response sent.
C12_StoreFailureAdmits ==
  rateLast.done /\ rateLast.backend = "error"
  => /\ rateLast.result.allowed
     /\ rateLast.outcome.next
     /\ rateLast.outcome.status = 0

\* C12, witness: a command failed for a key whose count in the shared store
\* is beyond maxRequests, and the request was admitted.
C12_Witness ==
  /\ rateLast.done /\ rateLast.backend = "error"
  /\ redisRate[rateLast.key].count > maxRequests
  /\ rateLast.outcome.next

\* C13: a verification whose SET NX fails with a store error returns
\* valid:true and reaches next(), whether or not the nonce was consumed.
C13_NonceStoreErrorAccepts ==
  authLast.verified /\ authLast.grant = "error"
  => authLast.valid /\ authLast.outcome.next

\* C13, witness: the store failed for a nonce that an earlier verification
\* had consumed in the shared store, and the token was accepted again.
C13_Witness ==
  /\ authLast.verified /\ authLast.grant = "error"
  /\ authLast.inRedis /\ authLast.replayed
  /\ authLast.valid

\* ------------------------------------------------- claims: the admission path
\* C14: a request for an /api path reaches its route handler only after the
\* four admission stages, run in the order IP filtering, rate limiter,
\* signature engine with replay guard, quota enforcer.
C14_FourStagesBeforeBusiness ==
  served.done /\ served.path \in ApiPaths
  => served.stages = <<"ip", "rate", "signature", "quota">>

\* ------------------------------------------------- claims: quota enforcer
\* The value of a counter at time t: zero for a caller without a record and
\* for a counter whose reset time has passed, which the next check resets.
EffectiveDaily(quota, t) ==
  IF quota = NoQuota \/ quota.dailyResetTime < t THEN 0 ELSE quota.dailyCount

EffectiveMonthly(quota, t) ==
  IF quota = NoQuota \/ quota.monthlyResetTime < t THEN 0
  ELSE quota.monthlyCount

\* The request just answered got past the max_tokens check to the quotas.
QuotaChecked ==
  quotaLast.done /\ quotaLast.outcome.code # "TOKEN_LIMIT_EXCEEDED"

\* C15: a request that reaches the quota checks from a caller whose
\* dailyCount equals the daily limit, before the daily reset time has passed,
\* is answered 429 DAILY_QUOTA_EXCEEDED whatever its monthly counter; and
\* MONTHLY_QUOTA_EXCEEDED is answered only when the daily counter is below
\* the daily limit.
C15_DailyCheckedFirst ==
  QuotaChecked
  => /\ (/\ quotaLast.pre # NoQuota
         /\ quotaLast.pre.dailyCount = DAILY_LIMIT
         /\ ~(quotaLast.pre.dailyResetTime < quotaLast.at))
        => quotaLast.outcome = QuotaReject(429, "DAILY_QUOTA_EXCEEDED")
     /\ quotaLast.outcome.code = "MONTHLY_QUOTA_EXCEEDED"
        => /\ quotaLast.outcome.status = 429
           /\ EffectiveDaily(quotaLast.pre, quotaLast.at) < DAILY_LIMIT

\* Both counters are at their limit, inside both windows, and the answer
\* names the daily quota.
C15_Witness ==
  /\ QuotaChecked
  /\ quotaLast.pre.dailyCount = DAILY_LIMIT
  /\ quotaLast.pre.monthlyCount >= MONTHLY_LIMIT
  /\ ~(quotaLast.pre.dailyResetTime < quotaLast.at)
  /\ ~(quotaLast.pre.monthlyResetTime < quotaLast.at)
  /\ quotaLast.outcome.code = "DAILY_QUOTA_EXCEEDED"

\* C16: an admitted request adds exactly one to the daily and to the monthly
\* counter, and a rejected request (daily, monthly or token ceiling) adds
\* nothing to either.  The counters are taken at their value at the time of
\* the request: a counter whose reset time has passed counts as zero, and a
\* request rejected by a limit may be the one that writes that zero.
C16_BothCountersCountAdmissions ==
  quotaLast.done
  => LET d == EffectiveDaily(quotaLast.pre, quotaLast.at)
         m == EffectiveMonthly(quotaLast.pre, quotaLast.at)
     IN IF quotaLast.outcome.next
        THEN /\ quotaLast.post.dailyCount = d + 1
             /\ quotaLast.post.monthlyCount = m + 1
        ELSE /\ EffectiveDaily(quotaLast.post, quotaLast.at) = d
             /\ EffectiveMonthly(quotaLast.post, quotaLast.at) = m

\* A caller with requests counted in both running windows is admitted.
C16_Witness ==
  /\ quotaLast.done /\ quotaLast.outcome.next
  /\ EffectiveDaily(quotaLast.pre, quotaLast.at) = 1
  /\ EffectiveMonthly(quotaLast.pre, quotaLast.at) = 2
  /\ quotaLast.post.dailyCount = 2 /\ quotaLast.post.monthlyCount = 3

\* C17: a request whose max_tokens is above MAX_TOKENS_PER_REQUEST is
\* answered 400 TOKEN_LIMIT_EXCEEDED and the quota record of its caller is
\* neither created nor changed.
C17_TokenCeilingTouchesNoQuota ==
  quotaLast.done /\ quotaLast.max_tokens > MAX_TOKENS_PER_REQUEST
  => /\ quotaLast.outcome = QuotaReject(400, "TOKEN_LIMIT_EXCEEDED")
     /\ quotaLast.post = quotaLast.pre
     /\ userQuotas[quotaLast.user] = quotaLast.pre

\* The caller has no record, and has none after the rejection.
C17_Witness ==
  /\ quotaLast.done /\ quotaLast.max_tokens > MAX_TOKENS_PER_REQUEST
  /\ quotaLast.pre = NoQuota
  /\ userQuotas[quotaLast.user] = NoQuota
  /\ quotaLast.outcome.status = 400

\* C18 as stated: the reset times of a record are those set at its creation,
\* creation + 24h and creation + 30d.
C18_ResetTimesFromCreation ==
  [][\A u \in QuotaUsers :
       IF userQuotas[u] = NoQuota
       THEN userQuotas'[u] # NoQuota
            => /\ userQuotas'[u].dailyResetTime = now + DayMs
               /\ userQuotas'[u].monthlyResetTime = now + MonthMs
       ELSE /\ userQuotas'[u].dailyResetTime = userQuotas[u].dailyResetTime
            /\ userQuotas'[u].monthlyResetTime
                 = userQuotas[u].monthlyResetTime]_vars

\* C18, amended: a new record gets the reset times creation + 24h and
\* creation + 30d; the request that reaches the quota checks after a reset
\* time has passed zeroes that counter alone and sets its reset time to the
\* time of that request + 24h (+ 30d); a counter whose reset time has not
\* passed keeps its count and its reset time.
C18_ResetsIndependentFromResetRequest ==
  QuotaChecked
  => LET pre == quotaLast.pre
         post == quotaLast.post
         t == quotaLast.at
         inc == IF quotaLast.outcome.next THEN 1 ELSE 0
     IN IF pre = NoQuota
        THEN /\ post.dailyResetTime = t + DayMs
             /\ post.monthlyResetTime = t + MonthMs
             /\ post.dailyCount = inc /\ post.monthlyCount = inc
        ELSE /\ IF pre.dailyResetTime < t
                THEN /\ post.dailyResetTime = t + DayMs
                     /\ post.dailyCount = inc
                ELSE /\ post.dailyResetTime = pre.dailyResetTime
                     /\ post.dailyCount = pre.dailyCount + inc
             /\ IF pre.monthlyResetTime < t
                THEN /\ post.monthlyResetTime = t + MonthMs
                     /\ post.monthlyCount = inc
                ELSE /\ post.monthlyResetTime = pre.monthlyResetTime
                     /\ post.monthlyCount = pre.monthlyCount + inc

\* The monthly counter is reset while the daily counter, which has counted
\* requests in a window opened by an earlier reset, is kept.
C18_Witness ==
  /\ QuotaChecked
  /\ quotaLast.pre # NoQuota
  /\ quotaLast.pre.monthlyResetTime < quotaLast.at
  /\ ~(quotaLast.pre.dailyResetTime < quotaLast.at)
  /\ quotaLast.pre.dailyCount = DAILY_LIMIT
  /\ quotaLast.post.monthlyCount = 0
  /\ quotaLast.post.dailyCount = DAILY_LIMIT
  /\ quotaLast.post.dailyResetTime # quotaLast.post.monthlyResetTime - MonthMs + DayMs

\* C19: the counters of an admitted request are incremented when the
\* upstream call is made and stay incremented when it has returned or
\* failed.
C19_PessimisticAccounting ==
  quotaLast.done /\ quotaLast.outcome.next
  => /\ quotaLast.upstream \in {"pending", "ok", "failed"}
     /\ userQuotas[quotaLast.user].dailyCount
          = EffectiveDaily(quotaLast.pre, quotaLast.at) + 1
     /\ userQuotas[quotaLast.user].monthlyCount
          = EffectiveMonthly(quotaLast.pre, quotaLast.at) + 1

\* The upstream call of an admitted request has failed and the request is
\* still counted.
C19_Witness ==
  /\ quotaLast.done /\ quotaLast.outcome.next
  /\ quotaLast.upstream = "failed"
  /\ userQuotas[quotaLast.user].dailyCount
       = quotaLast.pre.dailyCount + 1
  /\ quotaLast.pre.dailyCount > 0

\* -------------------------------------------------- claims: session store
\* C20: a read of a session that exists and has not expired returns the
\* batches appended to it since its record was created, concatenated in the
\* order they were appended, each batch in its own order.
C20_SessionRoundTrip ==
  sessionLast.done /\ sessionLast.op = "read" /\ sessionLast.live
  => sessionLast.returned = sessionLast.expected

\* A read returns what two appends or more have stored, messages that
\* differ among them.
C20_Witness ==
  /\ sessionLast.done /\ sessionLast.op = "read" /\ sessionLast.live
  /\ sessionLast.returned = <<"m1", "m2", "m1">>
  /\ sessions[sessionLast.sid].updatedAt > sessions[sessionLast.sid].createdAt

\* C21: a read of a session that is past the idle TTL returns the empty
\* sequence whether its record is still in the store or was removed, and so
\* does a read of a session id the store does not hold.
C21_ExpiredOrUnknownReadsEmpty ==
  sessionLast.done /\ sessionLast.op = "read" /\ ~sessionLast.live
  => sessionLast.returned = <<>>

\* The record read is past the TTL, holds messages and has not been swept.
C21_Witness ==
  /\ sessionLast.done /\ sessionLast.op = "read"
  /\ sessionLast.present /\ sessionLast.sid \in sessionLast.expired
  /\ sessionLast.expected # <<>>
  /\ sessionLast.returned = <<>>

\* C22: the stored history of a session is what was appended to it, whatever
\* a caller adds to or removes from an array it was returned; and the array
\* in the caller's hands is what it was returned with the caller's own
\* changes, whatever is appended to or removed from the store afterwards.
C22_ReadReturnsCopy ==
  /\ \A sid \in SessionIds :
       sessions[sid] # NoSession => sessions[sid].messages = appended[sid]
  /\ held.items = held.own

\* The caller has changed the array it was returned, the store has appended
\* to the session since, and the two differ.
C22_Witness ==
  /\ held.sid \in SessionIds
  /\ sessions[held.sid] # NoSession
  /\ sessionLast.done /\ sessionLast.op = "addMessages"
  /\ Len(held.items) > 0
  /\ Len(sessions[held.sid].messages) > Len(held.items)
  /\ \E i \in 1..Len(held.items) :
       held.items[i] # sessions[held.sid].messages[i]

\* C23 as stated: only the cleanup sweep removes a session record, and only
\* one that is past the idle TTL.
C23_OnlySweepRemoves ==
  sessionLast.done /\ sessionLast.removed # {}
  => /\ sessionLast.op = "cleanupExpiredSessions"
     /\ sessionLast.removed \subseteq sessionLast.expired

\* C23, amended: a session record is removed by the cleanup sweep, by a
\* read of that session, both only when it is past the idle TTL, or by
\* clearSession of that session, at any age; no append removes a record.
C23_SweepReadOrClearRemoves ==
  sessionLast.done /\ sessionLast.removed # {}
  => \/ /\ sessionLast.op = "cleanupExpiredSessions"
        /\ sessionLast.removed \subseteq sessionLast.expired
     \/ /\ sessionLast.op = "read"
        /\ sessionLast.removed = {sessionLast.sid}
        /\ sessionLast.sid \in sessionLast.expired
     \/ /\ sessionLast.op = "clearSession"
        /\ sessionLast.removed = {sessionLast.sid}

\* clearSession removes a session that is not past the idle TTL.
C23_Witness ==
  /\ sessionLast.done /\ sessionLast.op = "clearSession"
  /\ sessionLast.removed = {sessionLast.sid}
  /\ sessionLast.expired = {}
  /\ sessions[sessionLast.sid] = NoSession

\* What C30 says of an append and of an eviction: the session appended to
\* exists with updatedAt = now, with createdAt = now when it was absent; the
\* sweep and a read remove only sessions past the idle TTL.
AppendRefreshes ==
  LET session == sessions[sessionLast.sid]
  IN /\ session # NoSession
     /\ session.updatedAt = now
     /\ ~sessionLast.present => session.createdAt = now
     /\ sessionLast.removed = {}

EvictsExpiredOnly ==
  sessionLast.done /\ sessionLast.op \in {"cleanupExpiredSessions", "read"}
  => sessionLast.removed \subseteq sessionLast.expired

\* C30 as stated: every append creates or refreshes the session.
C30_AppendAlwaysRefreshes ==
  /\ sessionLast.done /\ sessionLast.op \in {"addMessages", "addMessage"}
     => AppendRefreshes
  /\ EvictsExpiredOnly

\* C30, amended: an append of at least one message creates the session when
\* it is absent, with createdAt = updatedAt = now, and otherwise sets
\* updatedAt to now; an append of an empty batch changes nothing.  The sweep
\* and a read remove a session only when now - updatedAt > TTL.
C30_NonEmptyAppendRefreshes ==
  /\ sessionLast.done /\ sessionLast.op \in {"addMessages", "addMessage"}
     => IF sessionLast.empty
        THEN /\ sessionLast.removed = {}
             /\ sessionLast.present
                  <=> sessions[sessionLast.sid] # NoSession
        ELSE AppendRefreshes
  /\ EvictsExpiredOnly

\* A session created longer ago than the idle TTL is read and is live: an
\* append has refreshed it since.
C30_Witness ==
  /\ sessionLast.done /\ sessionLast.op = "read" /\ sessionLast.live
  /\ now - sessions[sessionLast.sid].createdAt > sessionTTL
  /\ sessionLast.returned # <<>>
  /\ sessionLast.removed = {}

\* ------------------------------------------- claims: signature engine (2)
\* C25: with auth enabled, a request that carries no signature is answered
\* 401 MISSING_SIGNATURE, next() is not called, and neither nonce store
\* changes.
C25_MissingSignatureRejected ==
  [][enableAESAuth /\ authLast'.done /\ authLast'.signature = NoSignature
       => /\ authLast'.outcome.status = 401
          /\ authLast'.outcome.code = "MISSING_SIGNATURE"
          /\ ~authLast'.outcome.next
          /\ usedNonces' = usedNonces
          /\ redisNonces' = redisNonces]_vars

\* A request without a signature is rejected while the guard holds a nonce.
C25_Witness ==
  /\ enableAESAuth /\ authLast.done /\ authLast.signature = NoSignature
  /\ authLast.outcome.code = "MISSING_SIGNATURE"
  /\ usedNonces # {}

\* The token fails a check that comes before the replay guard: it cannot be
\* decrypted or has fewer than three fields, its payload is not the one
\* supplied, or its timestamp is a number outside the validity window.
FailsBeforeGuard(tok, data, at) ==
  \/ ~WellFormed(tok)
  \/ EmbeddedPayload(tok) # data
  \/ IsNumeral(TimestampField(tok)) /\ ~InWindow(tok, at)

\* C27: a verification of a token that is malformed, carries another
\* payload, or is expired or from the future fails and leaves both nonce
\* stores as they were.
C27_GuardAfterChecks ==
  [][/\ authLast'.verified
     /\ FailsBeforeGuard(authLast'.signature, authLast'.data, authLast'.at)
     => /\ ~authLast'.valid
        /\ usedNonces' = usedNonces
        /\ redisNonces' = redisNonces]_vars

\* An expired token for the right payload is rejected, and its nonce is in
\* neither store.
C27_Witness ==
  /\ authLast.verified /\ ~authLast.valid
  /\ WellFormed(authLast.signature)
  /\ EmbeddedPayload(authLast.signature) = authLast.data
  /\ IsNumeral(TimestampField(authLast.signature))
  /\ authLast.at - NumeralValue(TimestampField(authLast.signature))
       > signatureMaxAge
  /\ NonceField(authLast.signature) \notin usedNonces
  /\ ~RedisHas(redisNonces, NonceField(authLast.signature), now)

\* ----------------------------------------------- claims: rate limiter (2)
\* C26: on the shared store every rate-limit key that holds a count has an
\* expiry, at most windowMs ahead, once the check that created the key has
\* ended, whatever command of the check failed.
C26_EveryCountExpires ==
  \A key \in RateKeys :
    /\ redisRate[key].count > 0
    /\ \A r \in Slots :
         ~(rateFlight[r].pc = "pexpire" /\ rateFlight[r].key = key)
    => /\ redisRate[key].exp # 0
       /\ redisRate[key].exp <= now + windowMs

\* C29: every request that has entered the rate limiter is answered in the
\* end, also when the shared store never answers the command it waits for.
C29_EveryCheckEnds ==
  rateFlight[1].pc # "idle" ~> rateFlight[1].pc = "idle"

\* --------------------------------------------- claims: the middleware chain
\* The rejections the specification lists, with the middleware that answers
\* each.
RecognizedRejections ==
  {<<"ipFilter", 403, "IP_BLACKLISTED">>,
   <<"ipFilter", 403, "IP_NOT_WHITELISTED">>,
   <<"rateLimit", 429, "RATE_LIMIT_EXCEEDED">>,
   <<"auth", 401, "MISSING_SIGNATURE">>,
   <<"auth", 401, "INVALID_SIGNATURE">>,
   <<"costControl", 400, "TOKEN_LIMIT_EXCEEDED">>,
   <<"costControl", 429, "DAILY_QUOTA_EXCEEDED">>,
   <<"costControl", 429, "MONTHLY_QUOTA_EXCEEDED">>}

\* The quota records a caller may have at time t: counters up to their
\* ceilings, reset times due or ahead.
QuotaRecords(t) ==
  [dailyCount : 0..DAILY_LIMIT, dailyResetTime : {t - 1, t + DayMs},
   monthlyCount : 0..MONTHLY_LIMIT, monthlyResetTime : {t - 1, t + MonthMs}]

EarlierEffectsPersist ==
  pipe.rejectedBy \in {"auth", "costControl"} =>
    /\ pipe.rate.backend = "memory" =>
         memoryStore[pipe.rate.key].count = pipe.rate.count
    /\ pipe.rate.backend = "redis" =>
         redisRate[pipe.rate.key].count = pipe.rate.count
    /\ pipe.rejectedBy = "costControl" /\ pipe.nonce.grant = "memory" =>
         pipe.nonce.value \in usedNonces
    /\ pipe.rejectedBy = "costControl" /\ pipe.nonce.grant = "redis" =>
         RedisHas(redisNonces, pipe.nonce.value, now)

\* Once a request is rejected, nothing is written for it any more.
LaterStagesIdle ==
  pipe.rejectedBy # "" =>
    /\ memoryStore' = memoryStore
    /\ redisRate' = redisRate
    /\ usedNonces' = usedNonces
    /\ redisNonces' = redisNonces
    /\ userQuotas' = userQuotas
    /\ rateFlight' = rateFlight
    /\ authFlight' = authFlight

\* C28: no rollback across the stages.  When a request is rejected, the
\* count the rate limiter gave it is still in its window and the nonce the
\* replay guard consumed is still consumed; and from the rejection on, no
\* counter and no store changes for that request.
C28_NoRollback == []EarlierEffectsPersist /\ [][LaterStagesIdle]_vars

\* The quota enforcer rejects a request the rate limiter has counted and
\* whose nonce the replay guard has consumed.
C28_Witness ==
  /\ pipe.rejectedBy = "costControl"
  /\ pipe.rate.backend \in {"memory", "redis"}
  /\ pipe.rate.count > 0
  /\ pipe.nonce.grant \in {"memory", "redis"}

\* --------------------------------------------- claims: quota enforcer (2)
\* C38: no counter of any caller is above its limit; and a counter counts
\* the admissions since its last reset one by one, so that no more than the
\* limit are admitted between two resets: an admitted request raises each
\* counter by one from its value after the resets that were due, a rejected
\* one raises none.
C38_CountersWithinLimits ==
  /\ \A user \in QuotaUsers :
       /\ userQuotas[user].dailyCount <= DAILY_LIMIT
       /\ userQuotas[user].monthlyCount <= MONTHLY_LIMIT
  /\ quotaLast.done /\ quotaLast.outcome.next =>
       /\ quotaLast.post.dailyCount
            = EffectiveDaily(quotaLast.pre, quotaLast.at) + 1
       /\ quotaLast.post.monthlyCount
            = EffectiveMonthly(quotaLast.pre, quotaLast.at) + 1
  /\ quotaLast.done /\ ~quotaLast.outcome.next =>
       /\ quotaLast.post.dailyCount <= quotaLast.pre.dailyCount
       /\ quotaLast.post.monthlyCount <= quotaLast.pre.monthlyCount

\* The request that takes the daily counter to its limit is admitted, in a
\* window of the monthly counter that has admissions of an earlier day.
C38_Witness ==
  /\ quotaLast.done
  /\ quotaLast.outcome.next
  /\ quotaLast.post.dailyCount = DAILY_LIMIT
  /\ quotaLast.post.monthlyCount > quotaLast.post.dailyCount

\* ---------------------------------------------- claims: session store (2)
\* The step appends to session sid.
Appends(sid) ==
  /\ sessionLast'.done
  /\ sessionLast'.op \in {"addMessages", "addMessage"}
  /\ sessionLast'.sid = sid
  /\ ~sessionLast'.empty

\* C32: what a session held before it was idle for longer than the TTL is
\* not returned by a later read.  For the append that arrives after the TTL
\* has passed and before the record is removed: a read that follows it
\* returns the appended messages and nothing else.
C32_IdleMessagesGone ==
  [][\A sid \in SessionIds :
       sid \in expiredSessions(sessions, now) /\ Appends(sid) =>
         getSessionMessages(sessions', sid, now').returned
           = SubSeq(appended'[sid], Len(appended[sid]) + 1,
                    Len(appended'[sid]))]_vars

\* C33: a read of a session that is not past its TTL, and a read of an id
\* the store does not know, leave the store as it was: updatedAt is not
\* refreshed and no session is created.
C33_ReadObservesOnly ==
  [][/\ sessionLast'.done
     /\ sessionLast'.op = "read"
     /\ sessionLast'.live \/ ~sessionLast'.present
     => sessions' = sessions]_vars

\* A session is read some time after its last append, inside its TTL, and
\* its updatedAt is still the time of that append.
C33_Witness ==
  /\ sessionLast.done
  /\ sessionLast.op = "read"
  /\ sessionLast.live
  /\ sessions[sessionLast.sid].updatedAt < now

\* ------------------------------------------- claims: the middleware chain (2)
\* next() was called and no response sent, or a response was sent and next()
\* not called.
ExactlyOne(outcome) == outcome.next <=> outcome.status = 0

\* C39: an invocation of the rate-limit middleware or of verifyAESAuth that
\* has ended has called next() and sent nothing, or has sent one response
\* and not called next(); and one that still awaits the shared store has
\* done neither yet.
C39_ExactlyOneOutcome ==
  /\ rateLast.done => ExactlyOne(rateLast.outcome)
  /\ authLast.done => ExactlyOne(authLast.outcome)
  /\ rateFlight[1].pc # "idle" => ~rateLast.done
  /\ authFlight[1].pc # "idle" => ~authLast.done

\* The rate limiter has called next() for a request and verifyAESAuth has
\* answered it 401 after its round trip to the shared store.
C39_Witness ==
  /\ rateLast.done
  /\ rateLast.outcome.next
  /\ authLast.done
  /\ authLast.grant = "redis"
  /\ authLast.outcome.status = 401

\* ----------------------------------------------- claims: rate limiter (3)
\* C31: the sweep of the in-memory store cannot be observed.  Whatever the
\* store holds, a request checked at the present instant or later gets the
\* same allowed, count and resetTime whether the sweep has just run or not,
\* and the two stores it may leave differ by expired records only; so the
\* results of every sequence of requests are those of the sequence without
\* sweeps.
C31_SweepTransparent ==
  \A key \in RateKeys : \A t \in now..(now + windowMs + 1) :
    LET swept == sweepMemoryStore(memoryStore, now)
        kept == checkRateLimitWithMemory(memoryStore, key, maxRequests,
                                         windowMs, t)
        clean == checkRateLimitWithMemory(swept, key, maxRequests,
                                          windowMs, t)
    IN /\ kept.result = clean.result
       /\ sweepMemoryStore(kept.store, t) = sweepMemoryStore(clean.store, t)

\* The window of a key that used up its limit is over, its record is still
\* in the store for the sweep to delete, and the limiter is on the in-memory
\* store.
C31_Witness ==
  \E key \in RateKeys :
    /\ memoryStore[key] # NoRecord
    /\ memoryStore[key].resetTime < now
    /\ memoryStore[key].count > maxRequests
    /\ ~isRedisAvailable(redisStatus)

\* What each backend decides for the next request of key, after the same
\* requests at the same instants.
MemoryAllows(key) ==
  checkRateLimitWithMemory(memoryStore, key, maxRequests, windowMs,
                           now).result.allowed

RedisAllows(key) ==
  checkRateLimitWithRedis(redisRate, key, maxRequests, windowMs,
                          now).result.allowed

\* C36: after the same requests at the same instants, and no store error,
\* the in-memory and the shared backend decide the next request of a key
\* alike, whatever maxRequests is.
C36_BackendsAgree ==
  \A key \in RateKeys : MemoryAllows(key) = RedisAllows(key)

\* ------------------------------------------- claims: the choice of backend
\* The requests of key a backend has admitted in the window it has open at
\* time t: the requests it has counted, up to the limit.
AdmittedInWindow(count, limit) == IF count <= limit THEN count ELSE limit

MemoryAdmitted(key, t) ==
  IF memoryStore[key] = NoRecord \/ memoryStore[key].resetTime < t THEN 0
  ELSE AdmittedInWindow(memoryStore[key].count, maxRequests)

RedisAdmitted(key, t) ==
  AdmittedInWindow(RateLive(redisRate, t)[key].count, maxRequests)

\* C37: when the shared store is lost or comes back in the middle of a
\* window, the requests of a key admitted in the open windows of the two
\* backends together are at most maxRequests; and the replay guard grants
\* no nonce on one backend that the other backend holds as consumed.
C37_SwitchKeepsLimits ==
  /\ \A key \in RateKeys :
       MemoryAdmitted(key, now) + RedisAdmitted(key, now) <= maxRequests
  /\ authLast.verified /\ authLast.valid =>
       /\ authLast.grant = "memory" => ~authLast.inRedis
       /\ authLast.grant = "redis" => ~authLast.inMemory

\* ------------------------------------------- the route handlers: actions
\* The longest history the handlers are let to build.
MaxHistory == 6

\* What the clients write, and what the model answers.
Prompts == {"p1", "p2"}
Replies == {"r1"}

\* { role: 'system', content: ANALYZE_SYSTEM_PROMPT }
SystemMessage == [role |-> "system", content |-> "ANALYZE_SYSTEM_PROMPT"]

\* { role: 'user', content: buildAnalyzeUserPrompt(requestData) }
UserMessage(prompt) == [role |-> "user", content |-> prompt]

\* response.choices[0]?.message: one assistant message, or none when the
\* answer carries no choice.
Choices == {<<>>} \cup {<<[role |-> "assistant", content |-> c]>> : c \in Replies}

\* buildAnalyzeMessages(requestData, historyMessages)
buildAnalyzeMessages(prompt, historyMessages) ==
  IF Len(historyMessages) = 0
  THEN <<SystemMessage, UserMessage(prompt)>>
  ELSE historyMessages \o <<UserMessage(prompt)>>

\* buildMessagesToSaveForAnalyze(requestData, historyMessages,
\* assistantMessage)
buildMessagesToSaveForAnalyze(prompt, historyMessages, assistantMessage) ==
  (IF Len(historyMessages) = 0 THEN <<SystemMessage>> ELSE <<>>)
    \o <<UserMessage(prompt), assistantMessage>>

\* The handlers inside await llmClient.chat().
Upstream == {r \in Slots : handlers[r].pc = "upstream"}

\* A handler starts: it reads the history of the session and calls the
\* model with the list it built from it. each is the most messages one
\* handler saves.
handlerReads(r, sid, current, sent, each) ==
  /\ handlers[r].pc # "upstream"
  /\ Len(sessions[sid].messages) + each * (Cardinality(Upstream) + 1)
       <= MaxHistory
  /\ LET res == getSessionMessages(sessions, sid, now)
     IN /\ sessions' = res.store
        /\ appended' = [appended EXCEPT ![sid] = History(res.store, sid, @)]
        /\ handlers' = [handlers EXCEPT ![r] =
             [NoHandler EXCEPT !.pc = "upstream", !.sid = sid,
                               !.history = res.returned,
                               !.current = current,
                               !.sent = sent]]
  /\ UNCHANGED <<now, redisStatus, authOnlyVars, rateOnlyVars, served,
                 userQuotas, quotaLast, sessionLast, held, ipConfig, pipe>>

\* llmClient.chat() has answered: the handler saves the batch it built and
\* responds.
handlerSaves(r, choice, batch) ==
  /\ handlers[r].pc = "upstream"
  /\ LET sid == handlers[r].sid
         after == IF choice = <<>> THEN sessions
                  ELSE addMessages(sessions, sid, batch, now)
     IN /\ sessions' = after
        /\ appended' = [appended EXCEPT ![sid] =
                          IF choice = <<>> THEN @ ELSE @ \o batch]
        /\ handlers' = [handlers EXCEPT ![r].pc = "done",
                                        ![r].reply = choice,
                                        ![r].saved =
                                          IF choice = <<>> THEN <<>> ELSE batch,
                                        ![r].stored = after[sid].messages]
  /\ UNCHANGED <<now, redisStatus, authOnlyVars, rateOnlyVars, served,
                 userQuotas, quotaLast, sessionLast, held, ipConfig, pipe>>

\* POST /api/analyze up to await llmClient.chat().
AnalyzePost(r, sid, prompt) ==
  handlerReads(r, sid, <<UserMessage(prompt)>>,
               buildAnalyzeMessages(
                 prompt, getSessionMessages(sessions, sid, now).returned), 3)

\* POST /api/analyze from the answer of llmClient.chat() on.
AnalyzeReply(r, choice) ==
  handlerSaves(r, choice,
               IF choice = <<>> THEN <<>>
               ELSE buildMessagesToSaveForAnalyze(
                      handlers[r].current[1].content, handlers[r].history,
                      choice[1]))

\* POST /api/chat up to await llmClient.chat(): the history followed by the
\* messages of the request.
ChatPost(r, sid, currentMessages) ==
  handlerReads(r, sid, currentMessages,
               getSessionMessages(sessions, sid, now).returned
                 \o currentMessages, Len(currentMessages) + 1)

\* POST /api/chat from the answer of llmClient.chat() on.
ChatReply(r, choice) ==
  handlerSaves(r, choice, handlers[r].current \o choice)

\* llmClient.chat() throws: handleApiError answers and nothing is saved.
ChatThrows(r) ==
  /\ handlers[r].pc = "upstream"
  /\ handlers' = [handlers EXCEPT ![r] = NoHandler]
  /\ UNCHANGED <<now, redisStatus, authOnlyVars, rateOnlyVars, served,
                 userQuotas, quotaLast, sessions, sessionLast, appended, held,
                 ipConfig, pipe>>

AnalyzeNext ==
  \/ Tick(MaxSessionTime)
  \/ CleanupExpired
  \/ \E r \in Slots : \E sid \in SessionIds : \E p \in Prompts :
       AnalyzePost(r, sid, p)
  \/ \E r \in Slots : \E choice \in Choices : AnalyzeReply(r, choice)
  \/ \E r \in Slots : ChatThrows(r)

AnalyzeSpec == AppInit /\ [][AnalyzeNext]_vars

ChatNext ==
  \/ Tick(MaxSessionTime)
  \/ CleanupExpired
  \/ \E r \in Slots : \E sid \in SessionIds : \E p \in Prompts :
       ChatPost(r, sid, <<UserMessage(p)>>)
  \/ \E r \in Slots : \E choice \in Choices : ChatReply(r, choice)
  \/ \E r \in Slots : ChatThrows(r)

ChatSpec == AppInit /\ [][ChatNext]_vars

\* C34: in the analyze flow every stored session history holds exactly one
\* system message, and that message is its first element, also when
\* requests for one session that is not stored yet are in flight together.
C34_OneSystemMessageFirst ==
  \A sid \in SessionIds :
    sessions[sid] # NoSession =>
      LET stored == sessions[sid].messages
      IN /\ stored[1].role = "system"
         /\ Cardinality({i \in 1..Len(stored) : stored[i].role = "system"}) = 1

\* C35: in the chat flow, when a request has been answered, the stored
\* history of its session ends with the list that was sent upstream for that
\* request followed by the assistant reply, also when two requests for one
\* session overlap.
C35_StoredEndsWithSent ==
  \A r \in Slots :
    handlers[r].pc = "done" /\ handlers[r].reply # <<>> =>
      LET want == handlers[r].sent \o handlers[r].reply
          have == handlers[r].stored
      IN /\ Len(have) >= Len(want)
         /\ SubSeq(have, Len(have) - Len(want) + 1, Len(have)) = want

====
